---------------------------- MODULE Spec2Model ----------------------------
(***************************************************************************)
(* SNMPv3 message processor (snmp/message/v3.py) and SecurityLevel         *)
(* (snmp/security/__init__.py).                                            *)
(*                                                                         *)
(* Sender threads call prepareOutgoingMessage, one receiver thread calls   *)
(* prepareDataElements, and a handle's owner releases it, which runs the   *)
(* uncache callback registered on it.  Every step that runs under          *)
(* cacheLock or securityLock is one action.                                *)
(***************************************************************************)
EXTENDS Integers, FiniteSets, Sequences, TLC

VARIABLES
    outstanding,            \* self.outstanding: msgID -> CacheEntry
    generator,              \* self.generator: the last number it produced
    securityModules,        \* self.securityModules: model -> module object
    defaultSecurityModel,   \* self.defaultSecurityModel, None until a module is added
    sender,                 \* per sender thread: position and locals of prepareOutgoingMessage
    handleLive,             \* per handle: whether the weak reference still resolves
    callbacks,              \* per handle: the msgIDs registered with addCallback(uncache, msgID)
    rcv,                    \* the receiver thread: idle, or what prepareDataElements raised or returned
    level,                  \* a SecurityLevel object: its _auth and _priv fields
    flags,                  \* a MessageFlags object: securityLevel and reportableFlag
    slOp,                   \* the last operation applied to level or flags, and whether it raised
    cmp,                    \* the last comparison of two SecurityLevel objects
    dec,                    \* the last call of a decoder: its input and what it raised or returned
    lock,                   \* cacheLock and securityLock: the thread that holds it, or None
    thread,                 \* per thread: the line of the processor it is about to execute
    privProtocol,                   \* a privacy-protocol object: its class and its salt counter
    enc,                    \* per thread: its call of encrypt or decrypt on privProtocol, and the locals
    run,                    \* the salts returned by the encrypt calls made in a row with one engineBoots
    io,                     \* the last DesCbc call: its arguments and what it returned or raised
    authProtocol            \* an auth-protocol object, and the last two messages it signed

vars == <<outstanding, generator, securityModules, defaultSecurityModel,
          sender, handleLive, callbacks, rcv, level, flags, slOp, cmp, dec,
          lock, thread, privProtocol, enc, run, io, authProtocol>>

procVars == <<outstanding, generator, securityModules, defaultSecurityModel,
              sender, handleLive, callbacks, rcv>>

slVars == <<level, flags, slOp, cmp>>

decVars == <<dec>>

lockVars == <<lock, thread>>

privVars == <<privProtocol, enc, run>>

desVars == <<io>>

authVars == <<authProtocol>>

---------------------------------------------------------------------------
(* Bounds and program constants *)

\* The largest number the msgID generator produces; it stands for 2^31 - 1,
\* the largest value of NumberGenerator(31, signed=False).
MaxMsgID == 3

\* cache() gives up after this many draws.
RetryLimit == 10

\* SecurityModel.USM
USM == 3

\* MessageProcessingModel.SNMPv3
SNMPv3 == 3

\* HeaderData.deserialize: the least msgMaxSize accepted.
MinMaxSize == 484

\* prepareOutgoingMessage: the msgMaxSize of every message it builds.
MaxSize == 1472

AUTH_FLAG == 1
PRIV_FLAG == 2
REPORTABLE_FLAG == 4

None == 0

\* The sender threads; each owns one handle at a time, named after it.
Senders == {1, 2}

\* Values of engine IDs, security names and context names.
Ids == {1, 2}

MsgIDs == 1..MaxMsgID

\* A byte has this many values; it stands for 256 (1 << 8).
ByteRange == 2

\* The longest row of encrypt calls whose salts are kept.
MaxRun == 4

\* Aes128Cfb.BITS, Aes128Cfb.INTSIZE, DesCbc.BLOCKLEN
AES_BITS == 128
AES_INTSIZE == 4
DES_BLOCKLEN == 8

\* The threads that call encrypt on one privacy-protocol object.
EncThreads == {1, 2}

\* engineBoots values passed to encrypt and decrypt.
Boots == {0, 1}

\* No object constructed yet; no call made; no encrypt call made.
NoObject == [proto |-> "none", salt |-> 0]
NoCall == [pc |-> "idle", boots |-> 0, tmp |-> 0, out |-> <<>>]
NoRun == [boots |-> 0, n |-> 0, salts |-> {}]

\* No auth-protocol object constructed yet; nothing signed yet.
NoSignature == [data |-> <<>>, digest |-> <<>>]
NoAuth == [proto |-> "none", key |-> <<>>, msgAuthenticationParameters |-> <<>>,
           last |-> NoSignature, prev |-> NoSignature]

\* The longest plaintext or ciphertext passed to DesCbc.
MaxData == 17

\* No DesCbc call made yet.
NoIO == [op |-> "none", data |-> <<>>, salt |-> <<>>, result |-> <<>>, err |-> "none"]

\* The threads that call the processor's methods, and its two locks.
Threads == {1, 2, 3}

Locks == {"cacheLock", "securityLock"}

\* The members of MessageProcessingModel (SNMPv1, SNMPv2c, SNMPv3).
MessageProcessingModels == {0, 1, 3}

\* The members of the SecurityModel enumeration.
SecurityModels == {USM}

\* Security module objects that may be registered.
ModuleObjects == {"usm"}

---------------------------------------------------------------------------
(* SecurityLevel *)

\* bool(value) of an integer argument
Bool(value) == value # 0

BoolInt(b) == IF b THEN 1 ELSE 0

\* SecurityLevel.auth setter: the object afterwards, or a raised ValueError
SLSetAuth(sl, value) ==
    IF ~Bool(value) /\ sl.priv
    THEN [raised |-> TRUE, obj |-> sl]
    ELSE [raised |-> FALSE, obj |-> [sl EXCEPT !.auth = Bool(value)]]

\* The priv setter without the test that authentication is enabled.
SLSetPrivUnchecked(sl, value) ==
    [raised |-> FALSE, obj |-> [sl EXCEPT !.priv = Bool(value)]]

\* SecurityLevel.priv setter
SLSetPriv(sl, value) ==
    IF Bool(value) /\ ~sl.auth
    THEN [raised |-> TRUE, obj |-> sl]
    ELSE [raised |-> FALSE, obj |-> [sl EXCEPT !.priv = Bool(value)]]

\* SecurityLevel.__init__(auth, priv)
SLNew(auth, priv) ==
    LET s0 == [auth |-> FALSE, priv |-> FALSE]
        s1 == SLSetAuth(s0, auth)
    IN  IF s1.raised THEN s1 ELSE SLSetPriv(s1.obj, priv)

SLEq(a, b) == a.auth = b.auth /\ a.priv = b.priv

\* __lt__ that does not look at self.priv.
SLLessIgnoresOwnPriv(a, b) == IF a.auth THEN b.priv ELSE b.auth

\* SecurityLevel.__lt__
SLLess(a, b) == IF a.auth THEN b.priv /\ ~a.priv ELSE b.auth

\* SecurityLevel.__ge__
SLGe(a, b) == ~SLLess(a, b)

noAuthNoPriv == [auth |-> FALSE, priv |-> FALSE]
authNoPriv == [auth |-> TRUE, priv |-> FALSE]
authPriv == [auth |-> TRUE, priv |-> TRUE]

Levels == {noAuthNoPriv, authNoPriv, authPriv}

---------------------------------------------------------------------------
(* MessageFlags *)

BitAnd(byte, flag) == IF (byte \div flag) % 2 = 1 THEN flag ELSE 0

\* MessageFlags.interpret: the flags object, or the ValueError of SecurityLevel()
MFInterpret(byte) ==
    LET sl == SLNew(BitAnd(byte, AUTH_FLAG), BitAnd(byte, PRIV_FLAG))
    IN  [raised |-> sl.raised,
         obj |-> [securityLevel |-> sl.obj,
                  reportableFlag |-> BitAnd(byte, REPORTABLE_FLAG) # 0]]

\* data that leaves the reportable flag out of the byte.
MFDataNoReportable(mf) ==
    (IF mf.securityLevel.auth THEN AUTH_FLAG ELSE 0)
    + (IF mf.securityLevel.priv THEN PRIV_FLAG ELSE 0)

\* MessageFlags.data: the encoded byte
MFData(mf) ==
    (IF mf.securityLevel.auth THEN AUTH_FLAG ELSE 0)
    + (IF mf.securityLevel.priv THEN PRIV_FLAG ELSE 0)
    + (IF mf.reportableFlag THEN REPORTABLE_FLAG ELSE 0)

\* MessageFlags.authFlag setter
MFSetAuthFlag(mf, value) ==
    IF Bool(value) # mf.securityLevel.auth
    THEN LET sl == SLNew(BoolInt(Bool(value)), BoolInt(mf.securityLevel.priv))
         IN  [raised |-> sl.raised,
              obj |-> IF sl.raised THEN mf ELSE [mf EXCEPT !.securityLevel = sl.obj]]
    ELSE [raised |-> FALSE, obj |-> mf]

\* MessageFlags.privFlag setter
MFSetPrivFlag(mf, value) ==
    IF Bool(value) # mf.securityLevel.priv
    THEN LET sl == SLNew(BoolInt(mf.securityLevel.auth), BoolInt(Bool(value)))
         IN  [raised |-> sl.raised,
              obj |-> IF sl.raised THEN mf ELSE [mf EXCEPT !.securityLevel = sl.obj]]
    ELSE [raised |-> FALSE, obj |-> mf]

---------------------------------------------------------------------------
(* The message processor's tables *)

EmptyTable == [k \in {} |-> None]

\* dict[key] = value
Put(table, key, value) ==
    [k \in DOMAIN table \cup {key} |-> IF k = key THEN value ELSE table[k]]

\* del dict[key]
Remove(table, key) == [k \in DOMAIN table \ {key} |-> table[k]]

\* CacheEntry.__init__
CacheEntry(engineID, contextName, handle, securityName, securityModel, securityLevel) ==
    [context |-> contextName,
     engineID |-> engineID,
     handle |-> handle,
     securityName |-> securityName,
     securityModel |-> securityModel,
     securityLevel |-> securityLevel]

NoEntry == [handle |-> None]

\* The states of NumberGenerator(31, signed=False): the number it produced last.
Generators == 0..MaxMsgID

\* next(self.generator): the generator steps through its range and wraps.
GenNext(g) == (g + 1) % (MaxMsgID + 1)

\* No arguments (no call in progress), no message built.
NoArgs == [handle |-> None]
NoMessage == [header |-> None]

IdleSender ==
    [pc |-> "idle", args |-> NoArgs, entry |-> NoEntry, retry |-> 0, msgID |-> 0,
     message |-> NoMessage, err |-> "none"]

IdleRcv == [pc |-> "idle", kind |-> "none", msgID |-> 0, handle |-> None]

\* What prepareDataElements raises: the error and the field its text names
Raised(kind, field) ==
    [pc |-> "raised", kind |-> kind, field |-> field, msgID |-> 0, handle |-> None]

\* What prepareDataElements returns: the message (its id) and the handle
Returned(msgID, handle) ==
    [pc |-> "returned", kind |-> "ok", field |-> "none", msgID |-> msgID, handle |-> handle]

---------------------------------------------------------------------------
(* Init: the state after SNMPv3MessageProcessor(), SecurityLevel() and      *)
(* MessageFlags()                                                          *)

Init ==
    /\ outstanding = EmptyTable
    /\ generator \in Generators
    /\ securityModules = EmptyTable
    /\ defaultSecurityModel = None
    /\ sender = [s \in Senders |-> IdleSender]
    /\ handleLive = [s \in Senders |-> TRUE]
    /\ callbacks = [s \in Senders |-> {}]
    /\ rcv = IdleRcv
    /\ level = noAuthNoPriv
    /\ flags = [securityLevel |-> noAuthNoPriv, reportableFlag |-> FALSE]
    /\ slOp = [op |-> "SecurityLevel", a |-> 0, b |-> 0, raised |-> FALSE]
    /\ cmp = [a |-> noAuthNoPriv, b |-> noAuthNoPriv, lt |-> FALSE, gt |-> FALSE,
              eq |-> TRUE, ge |-> TRUE]
    /\ dec = [op |-> "none"]
    /\ lock = [l \in Locks |-> None]
    /\ thread = [t \in Threads |-> "idle"]
    /\ privProtocol = NoObject
    /\ enc = [t \in EncThreads |-> NoCall]
    /\ run = NoRun
    /\ io = NoIO
    /\ authProtocol = NoAuth

---------------------------------------------------------------------------
(* addSecurityModuleIfNeeded *)

\* addSecurityModuleIfNeeded that registers the module whether or not its
\* MODEL is registered already.
AddSecurityModuleAlways(module, model, default) ==
    /\ securityModules' = Put(securityModules, model, module)
    /\ defaultSecurityModel' =
           IF default \/ defaultSecurityModel = None
           THEN model
           ELSE defaultSecurityModel
    /\ UNCHANGED <<outstanding, generator, sender, handleLive, callbacks, rcv>>
    /\ UNCHANGED <<slVars, decVars, lockVars, privVars, desVars, authVars>>

AddSecurityModuleIfNeeded(module, model, default) ==
    /\ IF model \notin DOMAIN securityModules
       THEN /\ securityModules' = Put(securityModules, model, module)
            /\ defaultSecurityModel' =
                   IF default \/ defaultSecurityModel = None
                   THEN model
                   ELSE defaultSecurityModel
       ELSE UNCHANGED <<securityModules, defaultSecurityModel>>
    /\ UNCHANGED <<outstanding, generator, sender, handleLive, callbacks, rcv>>
    /\ UNCHANGED <<slVars, decVars, lockVars, privVars, desVars, authVars>>

---------------------------------------------------------------------------
(* prepareOutgoingMessage *)

\* The arguments sender s passes: its own engine, user and context, and handle s.
RequestEntry(s, securityModel, securityLevel) ==
    CacheEntry(s, s, s, s, securityModel, securityLevel)

\* The arguments of the call in progress that are read again after the
\* security model is resolved.
RequestArgs(s, securityLevel) ==
    [handle |-> s, engineID |-> s, securityName |-> s, securityLevel |-> securityLevel,
     contextName |-> s]

\* prepareOutgoingMessage that draws a msgID before it looks the security
\* module up.
PrepareOutgoingDrawsFirst(s, securityLevel, securityModel) ==
    /\ sender[s].pc = "idle"
    /\ LET model == IF securityModel = None THEN defaultSecurityModel ELSE securityModel
       IN  /\ sender' = [sender EXCEPT ![s] =
                  IF securityModel = None /\ defaultSecurityModel = None
                  THEN [IdleSender EXCEPT !.pc = "raised", !.err = "AssertionError"]
                  ELSE IF model \notin DOMAIN securityModules
                  THEN [IdleSender EXCEPT !.pc = "raised", !.err = "ValueError"]
                  ELSE [IdleSender EXCEPT !.pc = "cache",
                                          !.args = RequestArgs(s, securityLevel),
                                          !.entry = RequestEntry(s, model, securityLevel)]]
           /\ generator' = IF model \notin DOMAIN securityModules
                           THEN GenNext(generator)
                           ELSE generator
    /\ UNCHANGED <<outstanding, securityModules, defaultSecurityModel,
                   handleLive, callbacks, rcv>>
    /\ UNCHANGED <<slVars, decVars, lockVars, privVars, desVars, authVars>>

\* Lines 550-567: resolve the security module under securityLock, build the entry.
PrepareOutgoingBegin(s, securityLevel, securityModel) ==
    /\ sender[s].pc = "idle"
    /\ LET model == IF securityModel = None THEN defaultSecurityModel ELSE securityModel
       IN  sender' = [sender EXCEPT ![s] =
               IF securityModel = None /\ defaultSecurityModel = None
               THEN [IdleSender EXCEPT !.pc = "raised", !.err = "AssertionError"]
               ELSE IF model \notin DOMAIN securityModules
               THEN [IdleSender EXCEPT !.pc = "raised", !.err = "ValueError"]
               ELSE [IdleSender EXCEPT !.pc = "cache",
                                       !.args = RequestArgs(s, securityLevel),
                                       !.entry = RequestEntry(s, model, securityLevel)]]
    /\ UNCHANGED <<outstanding, generator, securityModules, defaultSecurityModel,
                   handleLive, callbacks, rcv>>
    /\ UNCHANGED <<slVars, decVars, lockVars, privVars, desVars, authVars>>

\* cache() where drawing 0 reseeds the generator without using up an attempt.
CacheTryZeroUncounted(s) ==
    /\ sender[s].pc = "cache"
    /\ sender[s].retry < RetryLimit
    /\ LET msgID == GenNext(generator)
       IN  IF msgID = 0
           THEN /\ generator' \in Generators
                /\ outstanding' = outstanding
                /\ sender' = sender
           ELSE IF msgID \notin DOMAIN outstanding
           THEN /\ generator' = msgID
                /\ outstanding' = Put(outstanding, msgID, sender[s].entry)
                /\ sender' = [sender EXCEPT ![s].pc = "addCallback", ![s].msgID = msgID,
                                             ![s].retry = 0]
           ELSE /\ generator' = msgID
                /\ outstanding' = outstanding
                /\ sender' = [sender EXCEPT ![s].retry = @ + 1]
    /\ UNCHANGED <<securityModules, defaultSecurityModel, handleLive, callbacks, rcv>>
    /\ UNCHANGED <<slVars, decVars, lockVars, privVars, desVars, authVars>>

\* cache() without the test that the drawn msgID is not outstanding.
CacheTryNoCollisionTest(s) ==
    /\ sender[s].pc = "cache"
    /\ sender[s].retry < RetryLimit
    /\ LET msgID == GenNext(generator)
       IN  IF msgID = 0
           THEN /\ generator' \in Generators
                /\ outstanding' = outstanding
                /\ sender' = [sender EXCEPT ![s].retry = @ + 1]
           ELSE /\ generator' = msgID
                /\ outstanding' = Put(outstanding, msgID, sender[s].entry)
                /\ sender' = [sender EXCEPT ![s].pc = "addCallback", ![s].msgID = msgID,
                                             ![s].retry = 0]
    /\ UNCHANGED <<securityModules, defaultSecurityModel, handleLive, callbacks, rcv>>
    /\ UNCHANGED <<slVars, decVars, lockVars, privVars, desVars, authVars>>

\* cache(): one pass of the loop body, under cacheLock.
CacheTry(s) ==
    /\ sender[s].pc = "cache"
    /\ sender[s].retry < RetryLimit
    /\ LET msgID == GenNext(generator)
       IN  IF msgID = 0
           THEN /\ generator' \in Generators
                /\ outstanding' = outstanding
                /\ sender' = [sender EXCEPT ![s].retry = @ + 1]
           ELSE IF msgID \notin DOMAIN outstanding
           THEN /\ generator' = msgID
                /\ outstanding' = Put(outstanding, msgID, sender[s].entry)
                /\ sender' = [sender EXCEPT ![s].pc = "addCallback", ![s].msgID = msgID,
                                             ![s].retry = 0]
           ELSE /\ generator' = msgID
                /\ outstanding' = outstanding
                /\ sender' = [sender EXCEPT ![s].retry = @ + 1]
    /\ UNCHANGED <<securityModules, defaultSecurityModel, handleLive, callbacks, rcv>>
    /\ UNCHANGED <<slVars, decVars, lockVars, privVars, desVars, authVars>>

\* cache(): the loop ends without a msgID.
CacheFail(s) ==
    /\ sender[s].pc = "cache"
    /\ ~(sender[s].retry < RetryLimit)
    /\ sender' = [sender EXCEPT ![s] =
                      [IdleSender EXCEPT !.pc = "raised", !.err = "AllocationFailure"]]
    /\ UNCHANGED <<outstanding, generator, securityModules, defaultSecurityModel,
                   handleLive, callbacks, rcv>>
    /\ UNCHANGED <<slVars, decVars, lockVars, privVars, desVars, authVars>>

\* The PDUs passed to prepareOutgoingMessage: a request (Confirmed) or a
\* trap (not Confirmed).
RequestPDUs == {"Get", "Trap"}
ConfirmedClass == {"Get"}

\* MessageFlags.__init__
MessageFlags(securityLevel, reportable) ==
    [securityLevel |-> securityLevel, reportableFlag |-> reportable]

\* HeaderData.__init__
HeaderData(msgID, maxSize, msgFlags, securityModel) ==
    [id |-> msgID, maxSize |-> maxSize, flags |-> msgFlags, securityModel |-> securityModel]

\* ScopedPDU.__init__
ScopedPDU(pdu, contextEngineID, contextName) ==
    [pdu |-> pdu, contextEngineID |-> contextEngineID, contextName |-> contextName]

\* SNMPv3Message.__init__(header, scopedPDU)
SNMPv3Message(header, scopedPDU) ==
    [header |-> header, scopedPDU |-> scopedPDU]

\* Lines 572-575 with every message marked reportable.
OutgoingMessageAlwaysReportable(args, securityModel, msgID, pdu) ==
    SNMPv3Message(
        HeaderData(msgID, MaxSize, MessageFlags(args.securityLevel, TRUE), securityModel),
        ScopedPDU(pdu, args.engineID, args.contextName))

\* Lines 572-575: the message built from the arguments, the resolved
\* security model and the msgID cache() returned.
OutgoingMessage(args, securityModel, msgID, pdu) ==
    SNMPv3Message(
        HeaderData(msgID, MaxSize,
                   MessageFlags(args.securityLevel, pdu \in ConfirmedClass),
                   securityModel),
        ScopedPDU(pdu, args.engineID, args.contextName))

\* Lines 570-577: register uncache on the handle, build the message and hand
\* it, with engineID and securityName, to the security module's
\* prepareOutgoing.
AddCallback(s, pdu) ==
    /\ sender[s].pc = "addCallback"
    /\ callbacks' = [callbacks EXCEPT ![s] = @ \cup {sender[s].msgID}]
    /\ sender' = [sender EXCEPT
           ![s].pc = "prepareOutgoing",
           ![s].message = [message |-> OutgoingMessage(sender[s].args,
                                                       sender[s].entry.securityModel,
                                                       sender[s].msgID, pdu),
                           engineID |-> sender[s].args.engineID,
                           securityName |-> sender[s].args.securityName]]
    /\ UNCHANGED <<outstanding, generator, securityModules, defaultSecurityModel,
                   handleLive, rcv>>
    /\ UNCHANGED <<slVars, decVars, lockVars, privVars, desVars, authVars>>

\* prepareOutgoingMessage returns the module's bytes; the caller sends them
\* and waits with the handle.
ReturnBytes(s) ==
    /\ sender[s].pc = "prepareOutgoing"
    /\ sender' = [sender EXCEPT ![s].pc = "waiting", ![s].args = NoArgs,
                                 ![s].message = NoMessage]
    /\ UNCHANGED <<outstanding, generator, securityModules, defaultSecurityModel,
                   handleLive, callbacks, rcv>>
    /\ UNCHANGED <<slVars, decVars, lockVars, privVars, desVars, authVars>>

---------------------------------------------------------------------------
(* The handle: released by its owner, its callbacks run after that *)

\* The owner drops the handle: the weak reference of the entry is dead from
\* here on.  The receiver holds a strong reference while it returns the handle.
Release(s) ==
    /\ sender[s].pc = "waiting"
    /\ rcv.handle # s
    /\ handleLive' = [handleLive EXCEPT ![s] = FALSE]
    /\ sender' = [sender EXCEPT ![s].pc = "released"]
    /\ UNCHANGED <<outstanding, generator, securityModules, defaultSecurityModel,
                   callbacks, rcv>>
    /\ UNCHANGED <<slVars, decVars, lockVars, privVars, desVars, authVars>>

\* uncache() that finds the entry and leaves it in the table.
UncacheKeeps(table, msgID) == table

\* uncache() that empties the table.
UncacheAll(table, msgID) == EmptyTable

\* uncache(msgID)
Uncache(table, msgID) ==
    IF msgID \in DOMAIN table THEN Remove(table, msgID) ELSE table

\* The released handle runs a registered callback: uncache(msgID).
RunCallback(s) ==
    /\ sender[s].pc = "released"
    /\ \E msgID \in callbacks[s] :
          /\ outstanding' = Uncache(outstanding, msgID)
          /\ callbacks' = [callbacks EXCEPT ![s] = @ \ {msgID}]
          /\ sender' = [sender EXCEPT ![s].pc =
                            IF callbacks[s] = {msgID} THEN "done" ELSE "released"]
    /\ UNCHANGED <<generator, securityModules, defaultSecurityModel, handleLive, rcv>>
    /\ UNCHANGED <<slVars, decVars, lockVars, privVars, desVars, authVars>>

\* The sender thread forgets the finished or failed request; its next request
\* comes with a new handle.
Reset(s) ==
    /\ sender[s].pc \in {"done", "raised"}
    /\ sender' = [sender EXCEPT ![s] = IdleSender]
    /\ handleLive' = [handleLive EXCEPT ![s] = TRUE]
    /\ callbacks' = [callbacks EXCEPT ![s] = {}]
    /\ UNCHANGED <<outstanding, generator, securityModules, defaultSecurityModel, rcv>>
    /\ UNCHANGED <<slVars, decVars, lockVars, privVars, desVars, authVars>>

---------------------------------------------------------------------------
(* Incoming messages *)

\* PDU classes: Response and Report are Response PDUs, Report alone is Internal;
\* "Get" stands for the request and notification PDUs, "Unknown" for a tag that
\* is not in pduTypes.
ResponseClassWithGet == {"Response", "Report", "Get"}

ResponseClass == {"Response", "Report"}
InternalClass == {"Report"}

\* A message as the receiver sees it: the version, the header fields, whether
\* the security module accepts it and the security parameters it then reports,
\* and the scoped PDU.
BaseMsg ==
    [version |-> SNMPv3, msgID |-> 1, maxSize |-> MinMaxSize, flags |-> 0,
     securityModel |-> USM, secOK |-> TRUE,
     securityEngineID |-> 1, securityName |-> 1,
     contextEngineID |-> 1, contextName |-> 1, pdu |-> "Response"]

VersionMsgs == {[BaseMsg EXCEPT !.version = v] : v \in {0, 1, 2}}

HeaderMsgs ==
    {[BaseMsg EXCEPT !.msgID = i, !.maxSize = z, !.securityModel = sm, !.flags = f] :
        i \in {-1, 1}, z \in {MinMaxSize - 1, MinMaxSize}, sm \in {0, USM, USM + 1},
        f \in {1, 2}}

FlagMsgs == {[BaseMsg EXCEPT !.flags = f] : f \in 0..7}

RejectedMsgs == {[BaseMsg EXCEPT !.secOK = FALSE, !.msgID = i] : i \in {1, 2}}

OtherPduMsgs == {[BaseMsg EXCEPT !.pdu = p, !.msgID = i] : p \in {"Get", "Unknown"}, i \in MsgIDs}

\* The four fields matched against the request: any values at all, or values
\* that agree with each other except for at most one.
AnyFields == {<<se, sn, ce, cn>> : se \in Ids, sn \in Ids, ce \in Ids, cn \in Ids}

NearFields ==
    {fs \in AnyFields : \E id \in Ids : Cardinality({k \in 1..4 : fs[k] # id}) <= 1}

SameFields == {fs \in AnyFields : \E id \in Ids : \A k \in 1..4 : fs[k] = id}

ScopedMsg(i, f, fs, p) ==
    [BaseMsg EXCEPT !.msgID = i, !.flags = f, !.securityEngineID = fs[1],
                    !.securityName = fs[2], !.contextEngineID = fs[3],
                    !.contextName = fs[4], !.pdu = p]

ResponseMsgs ==
    {ScopedMsg(i, 0, fs, "Response") : i \in MsgIDs, fs \in AnyFields}
    \cup {ScopedMsg(i, f, fs, "Response") : i \in MsgIDs, f \in {1, 3}, fs \in NearFields}

ReportMsgs ==
    {ScopedMsg(i, 0, fs, "Report") : i \in MsgIDs, fs \in AnyFields}
    \cup {ScopedMsg(i, 3, fs, "Report") : i \in MsgIDs, fs \in SameFields}

ScopedMsgs == ResponseMsgs \cup ReportMsgs

Messages ==
    VersionMsgs \cup HeaderMsgs \cup FlagMsgs \cup RejectedMsgs \cup OtherPduMsgs
    \cup ScopedMsgs

---------------------------------------------------------------------------
(* prepareDataElements *)

\* HeaderData.deserialize that tests msgMaxSize before msgID.
HeaderDataDeserializeSizeFirst(msg) ==
    LET mf == MFInterpret(msg.flags)
    IN  IF mf.raised
        THEN [err |-> "ValueError", field |-> "msgFlags", flags |-> mf.obj]
        ELSE IF msg.maxSize < MinMaxSize
        THEN [err |-> "ParseError", field |-> "msgMaxSize", flags |-> mf.obj]
        ELSE IF msg.msgID < 0
        THEN [err |-> "ParseError", field |-> "msgID", flags |-> mf.obj]
        ELSE IF msg.securityModel < 1
        THEN [err |-> "ParseError", field |-> "msgSecurityModel", flags |-> mf.obj]
        ELSE IF msg.securityModel \notin SecurityModels
        THEN [err |-> "UnknownSecurityModel", field |-> "msgSecurityModel", flags |-> mf.obj]
        ELSE [err |-> "none", field |-> "none", flags |-> mf.obj,
              id |-> msg.msgID, maxSize |-> msg.maxSize,
              securityModel |-> msg.securityModel]

\* HeaderData.deserialize: the error it raises and the field the error names
\* ("none" when it returns), and the decoded flags.  MessageFlags.decode runs
\* before the bounds are tested.
HeaderDataDeserialize(msg) ==
    LET mf == MFInterpret(msg.flags)
    IN  IF mf.raised
        THEN [err |-> "ValueError", field |-> "msgFlags", flags |-> mf.obj]
        ELSE IF msg.msgID < 0
        THEN [err |-> "ParseError", field |-> "msgID", flags |-> mf.obj]
        ELSE IF msg.maxSize < MinMaxSize
        THEN [err |-> "ParseError", field |-> "msgMaxSize", flags |-> mf.obj]
        ELSE IF msg.securityModel < 1
        THEN [err |-> "ParseError", field |-> "msgSecurityModel", flags |-> mf.obj]
        ELSE IF msg.securityModel \notin SecurityModels
        THEN [err |-> "UnknownSecurityModel", field |-> "msgSecurityModel", flags |-> mf.obj]
        ELSE [err |-> "none", field |-> "none", flags |-> mf.obj,
              id |-> msg.msgID, maxSize |-> msg.maxSize,
              securityModel |-> msg.securityModel]

\* SNMPv3Message.deserialize: the error it raises and the field the error
\* names; an unknown version is wrapped into BadVersion.
SNMPv3MessageDeserialize(msg) ==
    IF msg.version \notin MessageProcessingModels
    THEN [err |-> "BadVersion", field |-> "msgVersion"]
    ELSE IF msg.version # SNMPv3
    THEN [err |-> "BadVersion", field |-> "msgVersion"]
    ELSE [err |-> HeaderDataDeserialize(msg).err, field |-> HeaderDataDeserialize(msg).field]

\* retrieve() that returns an entry of the table whatever key is asked for.
RetrieveAnyEntry(msgID) ==
    IF msgID \in DOMAIN outstanding
    THEN outstanding[CHOOSE k \in DOMAIN outstanding : \A j \in DOMAIN outstanding : k <= j]
    ELSE NoEntry

\* retrieve(msgID): the entry, NoEntry for the KeyError
Retrieve(msgID) ==
    IF msgID \in DOMAIN outstanding THEN outstanding[msgID] ELSE NoEntry

\* The cross-check that does not test whether the entry's handle is alive.
MatchResponseNoHandleTest(msg, securityLevel) ==
    IF Retrieve(msg.msgID) = NoEntry
    THEN Raised("ResponseMismatch", "msgID")
    ELSE LET entry == Retrieve(msg.msgID)
             report == msg.pdu \in InternalClass
         IN  IF ~report /\ SLLess(entry.securityLevel, securityLevel)
             THEN Raised("ResponseMismatch", "Security Level")
             ELSE IF ~report /\ entry.engineID # msg.securityEngineID
             THEN Raised("ResponseMismatch", "Security Engine ID")
             ELSE IF entry.securityName # msg.securityName
             THEN Raised("ResponseMismatch", "Security Name")
             ELSE IF ~report /\ entry.engineID # msg.contextEngineID
             THEN Raised("ResponseMismatch", "Context Engine ID")
             ELSE IF entry.context # msg.contextName
             THEN Raised("ResponseMismatch", "Context Name")
             ELSE Returned(msg.msgID, entry.handle)

\* The cross-check without the comparison of the context names.
MatchResponseNoContextName(msg, securityLevel) ==
    IF Retrieve(msg.msgID) = NoEntry
    THEN Raised("ResponseMismatch", "msgID")
    ELSE LET entry == Retrieve(msg.msgID)
             report == msg.pdu \in InternalClass
         IN  IF ~handleLive[entry.handle]
             THEN Raised("LateResponse", "none")
             ELSE IF ~report /\ SLLess(entry.securityLevel, securityLevel)
             THEN Raised("ResponseMismatch", "Security Level")
             ELSE IF ~report /\ entry.engineID # msg.securityEngineID
             THEN Raised("ResponseMismatch", "Security Engine ID")
             ELSE IF entry.securityName # msg.securityName
             THEN Raised("ResponseMismatch", "Security Name")
             ELSE IF ~report /\ entry.engineID # msg.contextEngineID
             THEN Raised("ResponseMismatch", "Context Engine ID")
             ELSE Returned(msg.msgID, entry.handle)

\* The cross-check that compares the security names before the security
\* engine IDs.
MatchResponseNameFirst(msg, securityLevel) ==
    IF Retrieve(msg.msgID) = NoEntry
    THEN Raised("ResponseMismatch", "msgID")
    ELSE LET entry == Retrieve(msg.msgID)
             report == msg.pdu \in InternalClass
         IN  IF ~handleLive[entry.handle]
             THEN Raised("LateResponse", "none")
             ELSE IF ~report /\ SLLess(entry.securityLevel, securityLevel)
             THEN Raised("ResponseMismatch", "Security Level")
             ELSE IF entry.securityName # msg.securityName
             THEN Raised("ResponseMismatch", "Security Name")
             ELSE IF ~report /\ entry.engineID # msg.securityEngineID
             THEN Raised("ResponseMismatch", "Security Engine ID")
             ELSE IF ~report /\ entry.engineID # msg.contextEngineID
             THEN Raised("ResponseMismatch", "Context Engine ID")
             ELSE IF entry.context # msg.contextName
             THEN Raised("ResponseMismatch", "Context Name")
             ELSE Returned(msg.msgID, entry.handle)

\* self.retrieve(msgID), entry.handle() and the cross-check, lines 507-532
MatchResponse(msg, securityLevel) ==
    IF Retrieve(msg.msgID) = NoEntry
    THEN Raised("ResponseMismatch", "msgID")
    ELSE LET entry == Retrieve(msg.msgID)
             report == msg.pdu \in InternalClass
         IN  IF ~handleLive[entry.handle]
             THEN Raised("LateResponse", "none")
             ELSE IF ~report /\ SLLess(entry.securityLevel, securityLevel)
             THEN Raised("ResponseMismatch", "Security Level")
             ELSE IF ~report /\ entry.engineID # msg.securityEngineID
             THEN Raised("ResponseMismatch", "Security Engine ID")
             ELSE IF entry.securityName # msg.securityName
             THEN Raised("ResponseMismatch", "Security Name")
             ELSE IF ~report /\ entry.engineID # msg.contextEngineID
             THEN Raised("ResponseMismatch", "Context Engine ID")
             ELSE IF entry.context # msg.contextName
             THEN Raised("ResponseMismatch", "Context Name")
             ELSE Returned(msg.msgID, entry.handle)

\* prepareDataElements that looks the security module up only after the
\* security processing.
PDEResultSecurityFirst(msg) ==
    IF msg.version # SNMPv3
    THEN IF msg.version \in MessageProcessingModels
         THEN Raised("BadVersion", "none")
         ELSE Raised("ValueError", "msgVersion")
    ELSE LET msgGlobalData == HeaderDataDeserialize(msg)
             securityLevel == SLNew(BoolInt(msgGlobalData.flags.securityLevel.auth),
                                    BoolInt(msgGlobalData.flags.securityLevel.priv))
         IN  IF msgGlobalData.err # "none"
             THEN Raised(msgGlobalData.err, msgGlobalData.field)
             ELSE IF securityLevel.raised
             THEN Raised("InvalidMessage", "none")
             ELSE IF ~msg.secOK
             THEN Raised("SecurityError", "none")
             ELSE IF msg.securityModel \notin DOMAIN securityModules
             THEN Raised("UnknownSecurityModel", "none")
             ELSE IF msg.pdu = "Unknown"
             THEN Raised("ParseError", "pdu")
             ELSE IF msg.pdu \in ResponseClass
             THEN MatchResponse(msg, securityLevel.obj)
             ELSE Raised("UnsupportedFeature", "none")

\* What prepareDataElements(msg) raises or returns in the current state
PDEResult(msg) ==
    IF msg.version # SNMPv3
    THEN IF msg.version \in MessageProcessingModels
         THEN Raised("BadVersion", "none")
         ELSE Raised("ValueError", "msgVersion")
    ELSE LET msgGlobalData == HeaderDataDeserialize(msg)
             securityLevel == SLNew(BoolInt(msgGlobalData.flags.securityLevel.auth),
                                    BoolInt(msgGlobalData.flags.securityLevel.priv))
         IN  IF msgGlobalData.err # "none"
             THEN Raised(msgGlobalData.err, msgGlobalData.field)
             ELSE IF msg.securityModel \notin DOMAIN securityModules
             THEN Raised("UnknownSecurityModel", "none")
             ELSE IF securityLevel.raised
             THEN Raised("InvalidMessage", "none")
             ELSE IF ~msg.secOK
             THEN Raised("SecurityError", "none")
             ELSE IF msg.pdu = "Unknown"
             THEN Raised("ParseError", "pdu")
             ELSE IF msg.pdu \in ResponseClass
             THEN MatchResponse(msg, securityLevel.obj)
             ELSE Raised("UnsupportedFeature", "none")

\* What the receiver keeps of a result: the class of the exception, or the
\* returned message's id and the handle.
Outcome(result) ==
    [pc |-> result.pc, kind |-> result.kind, msgID |-> result.msgID,
     handle |-> result.handle]

\* prepareDataElements that removes the entry of the response it accepts.
PrepareDataElementsUncaches ==
    /\ rcv.pc = "idle"
    /\ rcv' \in {Outcome(PDEResult(msg)) : msg \in Messages}
    /\ outstanding' = IF rcv'.pc = "returned"
                      THEN Uncache(outstanding, rcv'.msgID)
                      ELSE outstanding
    /\ UNCHANGED <<generator, securityModules, defaultSecurityModel,
                   sender, handleLive, callbacks>>
    /\ UNCHANGED <<slVars, decVars, lockVars, privVars, desVars, authVars>>

\* prepareDataElements that forgets the outstanding requests when it fails.
PrepareDataElementsForgets ==
    /\ rcv.pc = "idle"
    /\ rcv' \in {Outcome(PDEResult(msg)) : msg \in Messages}
    /\ outstanding' = IF rcv'.pc = "raised" THEN EmptyTable ELSE outstanding
    /\ UNCHANGED <<generator, securityModules, defaultSecurityModel,
                   sender, handleLive, callbacks>>
    /\ UNCHANGED <<slVars, decVars, lockVars, privVars, desVars, authVars>>

\* The receiver thread runs prepareDataElements on a datagram, any of Messages.
PrepareDataElements ==
    /\ rcv.pc = "idle"
    /\ rcv' \in {Outcome(PDEResult(msg)) : msg \in Messages}
    /\ UNCHANGED <<outstanding, generator, securityModules, defaultSecurityModel,
                   sender, handleLive, callbacks>>
    /\ UNCHANGED <<slVars, decVars, lockVars, privVars, desVars, authVars>>

\* The receiver hands the message to the handle's owner (or drops the
\* datagram) and goes on to the next datagram.
ReceiverNext ==
    /\ rcv.pc # "idle"
    /\ rcv' = IdleRcv
    /\ UNCHANGED <<outstanding, generator, securityModules, defaultSecurityModel,
                   sender, handleLive, callbacks>>
    /\ UNCHANGED <<slVars, decVars, lockVars, privVars, desVars, authVars>>

---------------------------------------------------------------------------
(* The processor's specification *)

Next ==
    \/ \E module \in ModuleObjects, model \in SecurityModels, default \in BOOLEAN :
          AddSecurityModuleIfNeeded(module, model, default)
    \/ \E s \in Senders, securityLevel \in Levels, securityModel \in {None} \cup SecurityModels :
          PrepareOutgoingBegin(s, securityLevel, securityModel)
    \/ \E s \in Senders : CacheTry(s)
    \/ \E s \in Senders : CacheFail(s)
    \/ \E s \in Senders, pdu \in RequestPDUs : AddCallback(s, pdu)
    \/ \E s \in Senders : ReturnBytes(s)
    \/ \E s \in Senders : Release(s)
    \/ \E s \in Senders : RunCallback(s)
    \/ \E s \in Senders : Reset(s)
    \/ PrepareDataElements
    \/ ReceiverNext

Spec == Init /\ [][Next]_vars

---------------------------------------------------------------------------
(* The security modules alone: modules of two MODELs, two of them of the    *)
(* same MODEL, are registered, and prepareOutgoingMessage resolves the      *)
(* security model of a call.                                                *)

\* The MODEL values of the modules registered: USM and a second one
ModelInputs == SecurityModels \cup {USM + 1}

\* The module objects registered
ModuleInputs == ModuleObjects \cup {"usm2", "other"}

NextModules ==
    \/ \E module \in ModuleInputs, model \in ModelInputs, default \in BOOLEAN :
          AddSecurityModuleIfNeeded(module, model, default)
    \/ \E s \in Senders, securityLevel \in Levels, securityModel \in {None} \cup ModelInputs :
          PrepareOutgoingBegin(s, securityLevel, securityModel)
    \/ \E s \in Senders : Reset(s)

SpecModules == Init /\ [][NextModules]_vars

---------------------------------------------------------------------------
(* SecurityLevel and MessageFlags objects in use: construction, the property *)
(* setters, decoding and comparison.  An operation that raises leaves the   *)
(* object it was applied to as it was.                                      *)

\* Arguments passed where the code applies bool(): False/0, True/1, any other number.
Values == 0..2

\* The bytes decoded as MessageFlags: all values of the three flag bits, with
\* and without a higher bit set.
MaxByte == 15

Bytes == 0..MaxByte

\* level = SecurityLevel(auth, priv)
NewSecurityLevel(auth, priv) ==
    /\ LET r == SLNew(auth, priv)
       IN  /\ level' = IF r.raised THEN level ELSE r.obj
           /\ slOp' = [op |-> "SecurityLevel", a |-> auth, b |-> priv, raised |-> r.raised]
    /\ UNCHANGED <<flags, cmp>>
    /\ UNCHANGED <<procVars, decVars, lockVars, privVars, desVars, authVars>>

\* level.auth = value
SetAuth(value) ==
    /\ LET r == SLSetAuth(level, value)
       IN  /\ level' = r.obj
           /\ slOp' = [op |-> "auth", a |-> value, b |-> 0, raised |-> r.raised]
    /\ UNCHANGED <<flags, cmp>>
    /\ UNCHANGED <<procVars, decVars, lockVars, privVars, desVars, authVars>>

\* level.priv = value
SetPriv(value) ==
    /\ LET r == SLSetPriv(level, value)
       IN  /\ level' = r.obj
           /\ slOp' = [op |-> "priv", a |-> value, b |-> 0, raised |-> r.raised]
    /\ UNCHANGED <<flags, cmp>>
    /\ UNCHANGED <<procVars, decVars, lockVars, privVars, desVars, authVars>>

\* flags = MessageFlags(securityLevel, reportable)
NewMessageFlags(securityLevel, reportable) ==
    /\ flags' = [securityLevel |-> securityLevel, reportableFlag |-> reportable]
    /\ slOp' = [op |-> "MessageFlags", a |-> 0, b |-> 0, raised |-> FALSE]
    /\ UNCHANGED <<level, cmp>>
    /\ UNCHANGED <<procVars, decVars, lockVars, privVars, desVars, authVars>>

\* flags = MessageFlags.interpret(bytes((byte,)))
Interpret(byte) ==
    /\ LET r == MFInterpret(byte)
       IN  /\ flags' = IF r.raised THEN flags ELSE r.obj
           /\ slOp' = [op |-> "interpret", a |-> byte, b |-> 0, raised |-> r.raised]
    /\ UNCHANGED <<level, cmp>>
    /\ UNCHANGED <<procVars, decVars, lockVars, privVars, desVars, authVars>>

\* flags.authFlag = value
SetAuthFlag(value) ==
    /\ LET r == MFSetAuthFlag(flags, value)
       IN  /\ flags' = r.obj
           /\ slOp' = [op |-> "authFlag", a |-> value, b |-> 0, raised |-> r.raised]
    /\ UNCHANGED <<level, cmp>>
    /\ UNCHANGED <<procVars, decVars, lockVars, privVars, desVars, authVars>>

\* flags.privFlag = value
SetPrivFlag(value) ==
    /\ LET r == MFSetPrivFlag(flags, value)
       IN  /\ flags' = r.obj
           /\ slOp' = [op |-> "privFlag", a |-> value, b |-> 0, raised |-> r.raised]
    /\ UNCHANGED <<level, cmp>>
    /\ UNCHANGED <<procVars, decVars, lockVars, privVars, desVars, authVars>>

\* a < b, b < a, a == b and a >= b of two SecurityLevel objects
Compare(a, b) ==
    /\ cmp' = [a |-> a, b |-> b, lt |-> SLLess(a, b), gt |-> SLLess(b, a),
               eq |-> SLEq(a, b), ge |-> SLGe(a, b)]
    /\ UNCHANGED <<level, flags, slOp>>
    /\ UNCHANGED <<procVars, decVars, lockVars, privVars, desVars, authVars>>

NextSL ==
    \/ \E auth \in Values, priv \in Values : NewSecurityLevel(auth, priv)
    \/ \E value \in Values : SetAuth(value)
    \/ \E value \in Values : SetPriv(value)
    \/ \E securityLevel \in Levels, reportable \in BOOLEAN :
          NewMessageFlags(securityLevel, reportable)
    \/ \E byte \in Bytes : Interpret(byte)
    \/ \E value \in Values : SetAuthFlag(value)
    \/ \E value \in Values : SetPrivFlag(value)
    \/ \E a \in Levels \cup {level}, b \in Levels \cup {flags.securityLevel} : Compare(a, b)

SpecSL == Init /\ [][NextSL]_vars

---------------------------------------------------------------------------
(* The decoders called on their own: HeaderData.decode on the four header  *)
(* fields, SNMPv3Message.decode on a version and a header.                  *)

\* The header fields given to HeaderData.decode: values on both sides of
\* each bound, every combination of the three flag bits, and security
\* models below 1, undefined, and USM.
HeaderInputs ==
    {[BaseMsg EXCEPT !.msgID = i, !.maxSize = z, !.flags = f, !.securityModel = sm] :
        i \in {-1, 0, 1}, z \in {MinMaxSize - 1, MinMaxSize, MaxSize},
        f \in 0..7, sm \in {0, 1, USM, USM + 1}}

\* The messages given to SNMPv3Message.decode: every version from -1 to 4.
MessageInputs ==
    {[msg EXCEPT !.version = v] : v \in -1..4, msg \in {BaseMsg} \cup HeaderMsgs}

\* HeaderData.decode(data)
DecodeHeader(msg) ==
    /\ dec' = [op |-> "HeaderData", msg |-> msg, out |-> HeaderDataDeserialize(msg)]
    /\ UNCHANGED <<procVars, slVars, lockVars, privVars, desVars, authVars>>

\* SNMPv3Message.decode(data)
DecodeMessage(msg) ==
    /\ dec' = [op |-> "SNMPv3Message", msg |-> msg, out |-> SNMPv3MessageDeserialize(msg)]
    /\ UNCHANGED <<procVars, slVars, lockVars, privVars, desVars, authVars>>

NextDecode ==
    \/ \E msg \in HeaderInputs : DecodeHeader(msg)
    \/ \E msg \in MessageInputs : DecodeMessage(msg)

SpecDecode == Init /\ [][NextDecode]_vars

---------------------------------------------------------------------------
(* The locks.  Each thread executes one processor method at a time, line   *)
(* by line: entering a with block acquires the lock, leaving it (also by   *)
(* an exception) releases it.  An instruction is what the line does, the    *)
(* lock or table it does it on, and the lines that can follow.             *)

Line(do, on, next) == [do |-> do, on |-> on, next |-> next]

\* cache(), lines 440-453: each pass of the loop takes cacheLock, draws and
\* tests or inserts, and leaves the block; then it returns, loops or raises.
CacheCode ==
    ("cache.443" :> Line("acquire", "cacheLock", {"cache.444"}))
    @@ ("cache.444" :> Line("access", "outstanding", {"cache.449", "cache.451"}))
    @@ ("cache.449" :> Line("release", "cacheLock", {"pom.570"}))
    @@ ("cache.451" :> Line("release", "cacheLock", {"cache.443", "idle"}))

\* retrieve() that reads the table without taking cacheLock.
RetrieveCodeUnlocked ==
    ("retrieve.456" :> Line("call", "none", {"retrieve.457"}))
    @@ ("retrieve.457" :> Line("access", "outstanding", {"idle"}))

\* retrieve(), lines 455-457
RetrieveCode ==
    ("retrieve.456" :> Line("acquire", "cacheLock", {"retrieve.457"}))
    @@ ("retrieve.457" :> Line("access", "outstanding", {"retrieve.exit"}))
    @@ ("retrieve.exit" :> Line("release", "cacheLock", {"idle"}))

\* uncache(), lines 459-464
UncacheCode ==
    ("uncache.460" :> Line("acquire", "cacheLock", {"uncache.462"}))
    @@ ("uncache.462" :> Line("access", "outstanding", {"uncache.exit"}))
    @@ ("uncache.exit" :> Line("release", "cacheLock", {"idle"}))

\* addSecurityModuleIfNeeded(), lines 466-475
AddModuleCode ==
    ("add.470" :> Line("acquire", "securityLock", {"add.471"}))
    @@ ("add.471" :> Line("access", "securityModules", {"add.exit"}))
    @@ ("add.exit" :> Line("release", "securityLock", {"idle"}))

\* prepareDataElements(), lines 489-509: the module lookup under
\* securityLock (which may raise), processIncoming, and for a Response the
\* call of retrieve().
PrepareDataElementsCode ==
    ("pde.489" :> Line("acquire", "securityLock", {"pde.491"}))
    @@ ("pde.491" :> Line("access", "securityModules", {"pde.exit", "pde.495"}))
    @@ ("pde.495" :> Line("release", "securityLock", {"idle"}))
    @@ ("pde.exit" :> Line("release", "securityLock", {"pde.504"}))
    @@ ("pde.504" :> Line("call", "processIncoming", {"retrieve.456", "idle"}))

\* prepareOutgoingMessage(), lines 550-577: the module lookup under
\* securityLock (which may raise), cache(), addCallback and prepareOutgoing.
PrepareOutgoingMessageCode ==
    ("pom.550" :> Line("acquire", "securityLock", {"pom.551"}))
    @@ ("pom.551" :> Line("access", "securityModules", {"pom.exit", "pom.559"}))
    @@ ("pom.559" :> Line("release", "securityLock", {"idle"}))
    @@ ("pom.exit" :> Line("release", "securityLock", {"cache.443"}))
    @@ ("pom.570" :> Line("call", "addCallback", {"pom.577"}))
    @@ ("pom.577" :> Line("call", "prepareOutgoing", {"idle"}))

Code ==
    CacheCode @@ RetrieveCode @@ UncacheCode @@ AddModuleCode
    @@ PrepareDataElementsCode @@ PrepareOutgoingMessageCode
    @@ ("idle" :> Line("idle", "none", {}))

\* The first lines of the methods other threads call.
EntryPoints == {"pom.550", "pde.489", "uncache.460", "add.470"}

\* Thread t calls a method of the processor.
CallMethod(t, entry) ==
    /\ thread[t] = "idle"
    /\ thread' = [thread EXCEPT ![t] = entry]
    /\ UNCHANGED lock
    /\ UNCHANGED <<procVars, slVars, decVars, privVars, desVars, authVars>>

\* with self.<lock>: the thread waits until the lock is free and takes it.
AcquireLock(t) ==
    /\ Code[thread[t]].do = "acquire"
    /\ lock[Code[thread[t]].on] = None
    /\ lock' = [lock EXCEPT ![Code[thread[t]].on] = t]
    /\ thread' \in {[thread EXCEPT ![t] = n] : n \in Code[thread[t]].next}
    /\ UNCHANGED <<procVars, slVars, decVars, privVars, desVars, authVars>>

\* The thread reads or writes the table of the line.
AccessTable(t) ==
    /\ Code[thread[t]].do = "access"
    /\ thread' \in {[thread EXCEPT ![t] = n] : n \in Code[thread[t]].next}
    /\ UNCHANGED lock
    /\ UNCHANGED <<procVars, slVars, decVars, privVars, desVars, authVars>>

\* The thread leaves the with block.
ReleaseLock(t) ==
    /\ Code[thread[t]].do = "release"
    /\ lock' = [lock EXCEPT ![Code[thread[t]].on] = None]
    /\ thread' \in {[thread EXCEPT ![t] = n] : n \in Code[thread[t]].next}
    /\ UNCHANGED <<procVars, slVars, decVars, privVars, desVars, authVars>>

\* The thread calls out of the processor: a security module's
\* processIncoming or prepareOutgoing, or the handle's addCallback.
CallOut(t) ==
    /\ Code[thread[t]].do = "call"
    /\ thread' \in {[thread EXCEPT ![t] = n] : n \in Code[thread[t]].next}
    /\ UNCHANGED lock
    /\ UNCHANGED <<procVars, slVars, decVars, privVars, desVars, authVars>>

NextLock ==
    \/ \E t \in Threads, entry \in EntryPoints : CallMethod(t, entry)
    \/ \E t \in Threads : AcquireLock(t)
    \/ \E t \in Threads : AccessTable(t)
    \/ \E t \in Threads : ReleaseLock(t)
    \/ \E t \in Threads : CallOut(t)

SpecLock == Init /\ [][NextLock]_vars

---------------------------------------------------------------------------
(* The privacy protocols Aes128Cfb and DesCbc: the salt counter of an      *)
(* object, and the salt each encrypt call returns.                          *)

Protocols == {"aes", "des"}

\* BLOCKLEN, SALTLEN and SALTWRAP of the two classes
BLOCKLEN(proto) == IF proto = "aes" THEN AES_BITS \div 8 ELSE DES_BLOCKLEN

SALTLEN(proto) ==
    IF proto = "aes" THEN BLOCKLEN(proto) - (2 * AES_INTSIZE) ELSE BLOCKLEN(proto) \div 2

SALTWRAP(proto) == ByteRange ^ SALTLEN(proto)

\* int.to_bytes(length, "big"): the bytes of n, most significant first
RECURSIVE ToBytes(_, _)
ToBytes(n, length) ==
    IF length = 0
    THEN <<>>
    ELSE Append(ToBytes(n \div ByteRange, length - 1), n % ByteRange)

\* int.from_bytes(bytes, "big")
RECURSIVE FromBytes(_)
FromBytes(bytes) ==
    IF bytes = <<>>
    THEN 0
    ELSE FromBytes(SubSeq(bytes, 1, Len(bytes) - 1)) * ByteRange + bytes[Len(bytes)]

\* The new counter without the reduction modulo SALTWRAP.
NextSaltNoWrap(proto, salt) == salt + 1

\* (self.salt + 1) % self.SALTWRAP
NextSalt(proto, salt) == (salt + 1) % SALTWRAP(proto)

\* The salt encrypt returns, built from self.salt as it is when the line
\* runs: its bytes (AES), or the bytes of engineBoots followed by its bytes (DES).
SaltBytes(proto, engineBoots, salt) ==
    IF proto = "aes"
    THEN ToBytes(salt, SALTLEN(proto))
    ELSE ToBytes(engineBoots, BLOCKLEN(proto) - SALTLEN(proto))
         \o ToBytes(salt, SALTLEN(proto))

\* The row of encrypt calls after one more call with engineBoots that
\* returned salt: the row goes on while engineBoots stays and the row is
\* shorter than MaxRun, otherwise a new row starts.
RunAfter(engineBoots, salt) ==
    IF run.n > 0 /\ run.boots = engineBoots /\ run.n < MaxRun
    THEN [boots |-> engineBoots, n |-> run.n + 1, salts |-> run.salts \cup {salt}]
    ELSE [boots |-> engineBoots, n |-> 1, salts |-> {salt}]

\* __init__(key): the counter starts at int.from_bytes(os.urandom(SALTLEN)).
Construct ==
    /\ privProtocol = NoObject
    /\ \E proto \in Protocols : \E urandom \in [1..SALTLEN(proto) -> 0..(ByteRange - 1)] :
          privProtocol' = [proto |-> proto, salt |-> FromBytes(urandom)]
    /\ UNCHANGED <<enc, run>>
    /\ UNCHANGED <<procVars, slVars, decVars, lockVars, desVars, authVars>>

\* encrypt(data, engineBoots, engineTime), run by one thread from call to return.
Encrypt(engineBoots) ==
    /\ privProtocol.proto \in Protocols
    /\ LET stored == NextSalt(privProtocol.proto, privProtocol.salt)
           salt == SaltBytes(privProtocol.proto, engineBoots, stored)
       IN  /\ privProtocol' = [privProtocol EXCEPT !.salt = stored]
           /\ enc' = [enc EXCEPT ![1] = [NoCall EXCEPT !.pc = "done", !.boots = engineBoots,
                                                      !.out = salt]]
           /\ run' = RunAfter(engineBoots, salt)
    /\ UNCHANGED <<procVars, slVars, decVars, lockVars, desVars, authVars>>

\* decrypt(data, engineBoots, engineTime, salt): self.salt is not assigned.
Decrypt ==
    /\ privProtocol.proto \in Protocols
    /\ enc' = [enc EXCEPT ![1] = [NoCall EXCEPT !.pc = "decrypted"]]
    /\ UNCHANGED <<privProtocol, run>>
    /\ UNCHANGED <<procVars, slVars, decVars, lockVars, desVars, authVars>>

NextEncrypt ==
    \/ Construct
    \/ \E engineBoots \in Boots : Encrypt(engineBoots)
    \/ Decrypt

SpecEncrypt == Init /\ [][NextEncrypt]_vars

---------------------------------------------------------------------------
(* DesCbc: the padding, and the lengths of what encrypt and decrypt return. *)

\* bytes(n)
Zeros(n) == [k \in 1..n |-> 0]

\* pad that leaves data alone when its length is a multiple of BLOCKLEN.
PadToBlock(data) ==
    IF Len(data) % DES_BLOCKLEN = 0
    THEN data
    ELSE data \o Zeros(DES_BLOCKLEN - (Len(data) % DES_BLOCKLEN))

\* DesCbc.pad
Pad(data) == data \o Zeros(DES_BLOCKLEN - (Len(data) % DES_BLOCKLEN))

\* a ^ b on bytes
Xor(a, b) == (a + b) % ByteRange

\* self.preIV, the second half of the key
PreIV == [k \in 1..DES_BLOCKLEN |-> k % ByteRange]

\* DesCbc.computeIV: zip stops at the shorter of the two
ComputeIV(salt) ==
    [k \in 1..(IF Len(salt) < Len(PreIV) THEN Len(salt) ELSE Len(PreIV)) |-> Xor(PreIV[k], salt[k])]

\* DES.new(key, MODE_CBC, iv).encrypt(data), reduced to the chaining: every
\* byte is combined with the byte one block before it (the IV for the first
\* block) and substituted, so the output is as long as the input and
\* CbcDecrypt gives the input back.
CbcEncrypt(iv, data) ==
    LET c[k \in 1..Len(data)] ==
            LET prev == IF k <= DES_BLOCKLEN THEN iv[k] ELSE c[k - DES_BLOCKLEN]
            IN  (Xor(data[k], prev) + 1) % ByteRange
    IN  c

\* DES.new(key, MODE_CBC, iv).decrypt(data), the inverse chaining
CbcDecrypt(iv, data) ==
    [k \in 1..Len(data) |->
        LET prev == IF k <= DES_BLOCKLEN THEN iv[k] ELSE data[k - DES_BLOCKLEN]
        IN  (data[k] + (2 * ByteRange) - 1 - prev) % ByteRange]

\* decrypt without the test of the length of data.
DesDecryptResultNoLengthTest(data, salt) ==
    [err |-> "none", result |-> CbcDecrypt(ComputeIV(salt), Pad(data))]

\* DesCbc.decrypt: DecryptionError, or the bytes returned
DesDecryptResult(data, salt) ==
    IF Len(data) % DES_BLOCKLEN # 0
    THEN [err |-> "DecryptionError", result |-> <<>>]
    ELSE [err |-> "none", result |-> CbcDecrypt(ComputeIV(salt), Pad(data))]

\* The byte strings passed as data: of every length up to MaxData, of one
\* repeated nonzero byte or of bytes that change along the string.
DataInputs ==
    UNION {{[k \in 1..n |-> 1], [k \in 1..n |-> (k \div 3) % ByteRange]} : n \in 0..MaxData}

\* DesCbc.encrypt(data, engineBoots, engineTime)
DesEncrypt(data, engineBoots) ==
    /\ privProtocol.proto = "des"
    /\ LET stored == NextSalt("des", privProtocol.salt)
           salt == SaltBytes("des", engineBoots, stored)
       IN  /\ privProtocol' = [privProtocol EXCEPT !.salt = stored]
           /\ io' = [op |-> "encrypt", data |-> data, salt |-> salt,
                     result |-> CbcEncrypt(ComputeIV(salt), Pad(data)), err |-> "none"]
    /\ UNCHANGED <<enc, run>>
    /\ UNCHANGED <<procVars, slVars, decVars, lockVars, authVars>>

\* DesCbc.decrypt(data, engineBoots, engineTime, salt)
DesDecrypt(data, salt) ==
    /\ privProtocol.proto = "des"
    /\ LET r == DesDecryptResult(data, salt)
       IN  io' = [op |-> "decrypt", data |-> data, salt |-> salt,
                  result |-> r.result, err |-> r.err]
    /\ UNCHANGED privVars
    /\ UNCHANGED <<procVars, slVars, decVars, lockVars, authVars>>

NextDes ==
    \/ Construct
    \/ \E data \in DataInputs : DesEncrypt(data, 1)
    \/ \E data \in DataInputs : DesDecrypt(data, SaltBytes("des", 1, 1))

SpecDes == Init /\ [][NextDes]_vars

---------------------------------------------------------------------------
(* The auth protocols of snmp.security.usm.auth: the placeholder and the   *)
(* signature.                                                              *)

AuthProtocols == {"HmacMd5", "HmacSha", "HmacSha224", "HmacSha256", "HmacSha384", "HmacSha512"}

\* The digest length D of the hash, which is also the length of the key
DigestLength(proto) ==
    CASE proto = "HmacMd5" -> 16
      [] proto = "HmacSha" -> 20
      [] proto = "HmacSha224" -> 28
      [] proto = "HmacSha256" -> 32
      [] proto = "HmacSha384" -> 48
      [] proto = "HmacSha512" -> 64

\* The truncation T: the number of leading digest bytes that are the signature
TruncatedLength(proto) ==
    CASE proto = "HmacMd5" -> 12
      [] proto = "HmacSha" -> 12
      [] proto = "HmacSha224" -> 16
      [] proto = "HmacSha256" -> 24
      [] proto = "HmacSha384" -> 32
      [] proto = "HmacSha512" -> 48

\* Byte k of s, s being repeated as often as needed; 0 when s is empty
Cycled(s, k) == IF s = <<>> THEN 0 ELSE s[((k - 1) % Len(s)) + 1]

\* HMAC_H(key, data), reduced to a function of the key and the data that
\* returns D bytes.
Hmac(proto, key, data) ==
    [k \in 1..DigestLength(proto) |-> (Cycled(key, k) + Cycled(data, k) + Len(data) + k) % ByteRange]

\* sign that returns the whole digest.
SignWholeDigest(proto, key, data) == Hmac(proto, key, data)

\* sign(data): the leading T bytes of the HMAC
Sign(proto, key, data) == SubSeq(Hmac(proto, key, data), 1, TruncatedLength(proto))

\* The keys an object is constructed with: D bytes
AuthKeys(proto) ==
    {[k \in 1..DigestLength(proto) |-> 1], [k \in 1..DigestLength(proto) |-> k % ByteRange]}

\* authProtocol(authKey)
NewAuth(proto, key) ==
    /\ authProtocol' = [proto |-> proto, key |-> key,
                        msgAuthenticationParameters |-> Zeros(TruncatedLength(proto)),
                        last |-> NoSignature, prev |-> NoSignature]
    /\ UNCHANGED <<procVars, slVars, decVars, lockVars, privVars, desVars>>

\* auth.sign(data)
SignData(data) ==
    /\ authProtocol.proto \in AuthProtocols
    /\ authProtocol' =
          [authProtocol EXCEPT
              !.prev = authProtocol.last,
              !.last = [data |-> data,
                        digest |-> Sign(authProtocol.proto, authProtocol.key, data)]]
    /\ UNCHANGED <<procVars, slVars, decVars, lockVars, privVars, desVars>>

\* The data signed: the placeholders of the protocols, and two other strings
SignInputs == {Zeros(TruncatedLength(proto)) : proto \in AuthProtocols} \cup {<<1>>, <<1, 0, 1>>}

NextAuth ==
    \/ \E proto \in AuthProtocols : \E key \in AuthKeys(proto) : NewAuth(proto, key)
    \/ \E data \in SignInputs : SignData(data)

SpecAuth == Init /\ [][NextAuth]_vars

---------------------------------------------------------------------------
(* encrypt called by two threads on one object.  Nothing in encrypt        *)
(* serializes the calls, so the reads and the write of self.salt of the    *)
(* two threads interleave in any order.                                    *)

\* Thread t calls encrypt(data, engineBoots, engineTime).
EncCall(t, engineBoots) ==
    /\ privProtocol.proto \in Protocols
    /\ enc[t].pc = "idle"
    /\ enc' = [enc EXCEPT ![t] = [NoCall EXCEPT !.pc = "load", !.boots = engineBoots]]
    /\ UNCHANGED <<privProtocol, run>>
    /\ UNCHANGED <<procVars, slVars, decVars, lockVars, desVars, authVars>>

\* The read of self.salt in self.salt = (self.salt + 1) % self.SALTWRAP
EncLoad(t) ==
    /\ enc[t].pc = "load"
    /\ enc' = [enc EXCEPT ![t].pc = "store", ![t].tmp = privProtocol.salt]
    /\ UNCHANGED <<privProtocol, run>>
    /\ UNCHANGED <<procVars, slVars, decVars, lockVars, desVars, authVars>>

\* The assignment to self.salt in the same statement
EncStore(t) ==
    /\ enc[t].pc = "store"
    /\ privProtocol' = [privProtocol EXCEPT !.salt = NextSalt(privProtocol.proto, enc[t].tmp)]
    /\ enc' = [enc EXCEPT ![t].pc = "salt", ![t].tmp = 0]
    /\ UNCHANGED run
    /\ UNCHANGED <<procVars, slVars, decVars, lockVars, desVars, authVars>>

\* salt = self.salt.to_bytes(...): self.salt is read again; encrypt returns.
EncReturn(t) ==
    /\ enc[t].pc = "salt"
    /\ enc' = [enc EXCEPT ![t].pc = "done",
                          ![t].out = SaltBytes(privProtocol.proto, enc[t].boots, privProtocol.salt)]
    /\ UNCHANGED <<privProtocol, run>>
    /\ UNCHANGED <<procVars, slVars, decVars, lockVars, desVars, authVars>>

NextRace ==
    \/ Construct
    \/ \E t \in EncThreads, engineBoots \in Boots : EncCall(t, engineBoots)
    \/ \E t \in EncThreads : EncLoad(t)
    \/ \E t \in EncThreads : EncStore(t)
    \/ \E t \in EncThreads : EncReturn(t)

SpecRace == Init /\ [][NextRace]_vars

---------------------------------------------------------------------------
(* Properties of the message processor *)

\* Sender s has a request in the table: cache() has returned its msgID and
\* the handle's callback has not removed it.
Outstanding(s) ==
    sender[s].pc \in {"addCallback", "prepareOutgoing", "waiting", "released"}

\* Sender s has a request in the table and its handle has not been released.
Live(s) == sender[s].pc \in {"addCallback", "prepareOutgoing", "waiting"}

\* C1: no two outstanding requests share a msgID, and every msgID cache()
\* has returned is in 1..MaxMsgID (never 0).
C1_DistinctMsgIDs ==
    /\ DOMAIN outstanding \subseteq MsgIDs
    /\ \A s \in Senders : Outstanding(s) =>
          /\ sender[s].msgID \in MsgIDs
          /\ \A t \in Senders \ {s} : Outstanding(t) => sender[t].msgID # sender[s].msgID

\* C1: a step never changes the entry of a msgID that stays in the table, and
\* cache() inserts only a msgID that was not a key.
C1_NoOverwrite ==
    /\ \A m \in DOMAIN outstanding \cap DOMAIN outstanding' :
          outstanding'[m] = outstanding[m]
    /\ \A s \in Senders :
          (sender[s].pc = "cache" /\ sender'[s].pc = "addCallback") =>
              /\ sender'[s].msgID \notin DOMAIN outstanding
              /\ sender'[s].msgID \in DOMAIN outstanding'
              /\ sender'[s].msgID # 0

\* C1: under every interleaving of sends, releases and receives, outstanding
\* requests have distinct nonzero msgIDs and cache() never overwrites an entry.
C1_UniqueMsgID == [](C1_DistinctMsgIDs) /\ [][C1_NoOverwrite]_vars

\* Two concurrent sends both hold a msgID, neither callback registered yet.
C1_Witness ==
    /\ \A s \in Senders : sender[s].pc = "addCallback"
    /\ Cardinality(DOMAIN outstanding) = Cardinality(Senders)

\* C2: while a request's handle is not released, retrieve(M) returns the
\* request's own entry.
C2_RetrieveWhileLive ==
    \A s \in Senders : Live(s) => Retrieve(sender[s].msgID) = sender[s].entry

\* C2: when the released handle's uncache callback has run, M is not a key; a
\* msgID that is not a key becomes one only by cache() returning it.
C2_AbsentAfterUncache ==
    /\ \A s \in Senders :
          (sender[s].pc = "released" /\ sender'[s].pc = "done") =>
              sender[s].msgID \notin DOMAIN outstanding'
    /\ \A m \in DOMAIN outstanding' \ DOMAIN outstanding :
          \E s \in Senders :
              /\ sender[s].pc = "cache"
              /\ sender'[s].pc = "addCallback"
              /\ sender'[s].msgID = m

\* C2: retrieve(M) returns the request's entry from insertion until release;
\* after release and uncache M is absent until it is allocated again.
C2_EntryLifetime == [](C2_RetrieveWhileLive) /\ [][C2_AbsentAfterUncache]_vars

\* One request is released and uncached, its msgID is not a key, while the
\* other sender's live request is still retrievable.
C2_Witness ==
    \E s \in Senders, t \in Senders :
        /\ sender[s].pc = "done"
        /\ sender[s].msgID \notin DOMAIN outstanding
        /\ sender[t].pc = "waiting"
        /\ Retrieve(sender[t].msgID) = sender[t].entry

---------------------------------------------------------------------------
(* Properties of prepareDataElements *)

\* The flags byte of a message sent at the given security level.
LevelFlags(securityLevel) ==
    MFData([securityLevel |-> securityLevel, reportableFlag |-> FALSE])

\* The Response to sender s's request: the request's msgID, security model and
\* level, its user, its engine as security and context engine, its context.
ResponseTo(s) ==
    [ScopedMsg(sender[s].msgID, LevelFlags(sender[s].entry.securityLevel),
               <<sender[s].entry.engineID, sender[s].entry.securityName,
                 sender[s].entry.engineID, sender[s].entry.context>>, "Response")
        EXCEPT !.securityModel = sender[s].entry.securityModel]

\* noAuthNoPriv < authNoPriv < authPriv, as numbers
Rank(securityLevel) ==
    IF securityLevel.priv THEN 2 ELSE IF securityLevel.auth THEN 1 ELSE 0

C4_LevelAtLeastRequested ==
    rcv.pc = "idle" =>
        \A s \in Senders : \A f \in {0, AUTH_FLAG, AUTH_FLAG + PRIV_FLAG} :
            sender[s].pc = "waiting" =>
                LET result == PDEResult([ResponseTo(s) EXCEPT !.flags = f])
                    received == MFInterpret(f).obj.securityLevel
                IN  IF Rank(received) < Rank(sender[s].entry.securityLevel)
                    THEN result.kind = "ResponseMismatch"
                    ELSE ~(result.kind = "ResponseMismatch"
                           /\ result.field = "Security Level")

\* The Responses that differ from the Response to s's request in exactly one
\* of: msgID (one that is not outstanding), securityName, securityEngineID,
\* contextEngineID, contextName.
Deviations(s) ==
    {[ResponseTo(s) EXCEPT !.msgID = i] : i \in MsgIDs \ DOMAIN outstanding}
    \cup {[ResponseTo(s) EXCEPT !.securityName = x] :
             x \in Ids \ {sender[s].entry.securityName}}
    \cup {[ResponseTo(s) EXCEPT !.securityEngineID = x] :
             x \in Ids \ {sender[s].entry.engineID}}
    \cup {[ResponseTo(s) EXCEPT !.contextEngineID = x] :
             x \in Ids \ {sender[s].entry.engineID}}
    \cup {[ResponseTo(s) EXCEPT !.contextName = x] :
             x \in Ids \ {sender[s].entry.context}}

\* C5: while the request's handle is live, a Response that differs from the
\* request in exactly one matched field fails with ResponseMismatch and
\* comes with no handle.
C5_OneFieldMismatch ==
    rcv.pc = "idle" =>
        \A s \in Senders :
            Live(s) =>
                \A msg \in Deviations(s) :
                    /\ PDEResult(msg).pc = "raised"
                    /\ PDEResult(msg).kind = "ResponseMismatch"
                    /\ PDEResult(msg).handle = None

\* The receiver has raised ResponseMismatch while a request is waiting whose
\* one-field deviations are all among the datagrams it may get.
C5_Witness ==
    /\ rcv.pc = "raised"
    /\ rcv.kind = "ResponseMismatch"
    /\ \E s \in Senders :
          /\ sender[s].pc = "waiting"
          /\ Cardinality(Deviations(s)) >= 5
          /\ Deviations(s) \subseteq Messages

\* C6: while the request's handle is live, the Response that carries the
\* request's msgID, user, engine, context and level is accepted, and what is
\* returned is the message with that msgID and the handle passed for it.
C6_MatchingResponseAccepted ==
    /\ rcv.pc = "idle" =>
          \A s \in Senders :
              Live(s) => PDEResult(ResponseTo(s)) = Returned(sender[s].msgID, s)
    /\ rcv.pc = "returned" =>
          /\ rcv.msgID \in DOMAIN outstanding
          /\ outstanding[rcv.msgID].handle = rcv.handle
          /\ Live(rcv.handle)
          /\ sender[rcv.handle].msgID = rcv.msgID

\* The receiver returns sender 2's handle for sender 2's msgID while sender
\* 1's request is outstanding too.
C6_Witness ==
    /\ rcv.pc = "returned"
    /\ rcv.handle = 2
    /\ rcv.msgID = sender[2].msgID
    /\ ResponseTo(2) \in Messages
    /\ sender[1].pc = "waiting"
    /\ sender[1].msgID < sender[2].msgID

\* The step in which prepareDataElements accepts a Response
Accepts == rcv.pc = "idle" /\ rcv'.pc = "returned"

\* C7, as claimed: after prepareDataElements accepts a Response for msgID M,
\* M is no longer a key of the outstanding table.
C7_DestroyedOnResponse == [][Accepts => rcv'.msgID \notin DOMAIN outstanding']_vars

\* C7, amended: accepting a Response leaves the table as it is, so M stays a
\* key and the same Response is accepted again; an entry leaves the table
\* only when a released handle's uncache callback runs.
C7_KeptUntilUncache ==
    /\ [](rcv.pc = "returned" =>
              /\ rcv.msgID \in DOMAIN outstanding
              /\ PDEResult(ResponseTo(rcv.handle)) = Returned(rcv.msgID, rcv.handle))
    /\ [][/\ Accepts => outstanding' = outstanding
          /\ \A m \in DOMAIN outstanding \ DOMAIN outstanding' :
                \E s \in Senders :
                    /\ sender[s].pc = "released"
                    /\ m \in callbacks[s]
                    /\ m \notin callbacks'[s]]_vars

\* A Response has been accepted and its msgID is still a key.
C7_Witness ==
    /\ rcv.pc = "returned"
    /\ rcv.msgID \in DOMAIN outstanding
    /\ sender[rcv.handle].pc = "waiting"

---------------------------------------------------------------------------
(* Properties of cache() *)

\* C8: a pass of the loop with fewer than 10 failed draws draws once: a
\* nonzero number that is not a key is inserted and returned, any other draw
\* leaves the table alone and counts as one attempt (0 also reseeds); with 10
\* failed draws cache() draws no more and raises, the table as it was.
C8_CacheStep ==
    (\/ generator' # generator
     \/ \E s \in Senders : sender[s].pc = "cache" /\ sender'[s] # sender[s]) =>
        \E s \in Senders :
            /\ sender[s].pc = "cache"
            /\ LET drawn == GenNext(generator)
               IN  IF sender[s].retry < RetryLimit
                   THEN IF drawn # 0 /\ drawn \notin DOMAIN outstanding
                        THEN /\ sender'[s].pc = "addCallback"
                             /\ sender'[s].msgID = drawn
                             /\ DOMAIN outstanding' = DOMAIN outstanding \cup {drawn}
                             /\ outstanding'[drawn] = sender[s].entry
                        ELSE /\ sender'[s].pc = "cache"
                             /\ sender'[s].retry = sender[s].retry + 1
                             /\ outstanding' = outstanding
                             /\ drawn # 0 => generator' = drawn
                   ELSE /\ sender'[s].pc = "raised"
                        /\ sender'[s].err = "AllocationFailure"
                        /\ outstanding' = outstanding
                        /\ generator' = generator

\* C8: cache() makes at most 10 draws, returns the first that is nonzero and
\* not outstanding, and raises with the table unchanged when none is.
C8_BoundedAllocation ==
    /\ [](\A s \in Senders :
              /\ sender[s].retry \in 0..RetryLimit
              /\ sender[s].pc # "cache" => sender[s].retry = 0)
    /\ [][C8_CacheStep]_vars

\* cache() has raised after ten failed draws while a request of the other
\* sender is outstanding.
C8_Witness ==
    \E s \in Senders, t \in Senders :
        /\ sender[s].pc = "raised"
        /\ sender[s].err = "AllocationFailure"
        /\ sender[t].pc = "waiting"
        /\ sender[t].msgID \in DOMAIN outstanding

---------------------------------------------------------------------------
(* Properties of SecurityLevel and MessageFlags *)

\* priv without auth
Illegal(auth, priv) == priv /\ ~auth

\* The (auth, priv) that operation op would give the object it is applied to.
Wanted(op) ==
    CASE op.op = "SecurityLevel" -> <<Bool(op.a), Bool(op.b)>>
      [] op.op = "auth" -> <<Bool(op.a), level.priv>>
      [] op.op = "priv" -> <<level.auth, Bool(op.a)>>
      [] op.op = "interpret" -> <<op.a % 2 = 1, (op.a \div 2) % 2 = 1>>
      [] op.op = "authFlag" -> <<Bool(op.a), flags.securityLevel.priv>>
      [] op.op = "privFlag" -> <<flags.securityLevel.auth, Bool(op.a)>>
      [] OTHER -> <<FALSE, FALSE>>

\* An operation that would give priv without auth raises and changes neither
\* object; any other operation does not raise and its object gets the values.
C9_IllegalRaises ==
    (<<level, flags, slOp>>' # <<level, flags, slOp>> /\ slOp'.op # "MessageFlags") =>
        LET auth == Wanted(slOp')[1]
            priv == Wanted(slOp')[2]
            object == IF slOp'.op \in {"SecurityLevel", "auth", "priv"}
                      THEN level' ELSE flags'.securityLevel
        IN  IF Illegal(auth, priv)
            THEN slOp'.raised /\ level' = level /\ flags' = flags
            ELSE ~slOp'.raised /\ object.auth = auth /\ object.priv = priv

\* C9: every SecurityLevel, one held by a MessageFlags included, has auth
\* whenever it has privProtocol, and constructing or assigning what would give privProtocol
\* without auth raises ValueError and has no effect.
C9_PrivImpliesAuth ==
    /\ []((level.priv => level.auth)
          /\ (flags.securityLevel.priv => flags.securityLevel.auth))
    /\ [][C9_IllegalRaises]_vars

\* Enabling privFlag on flags without authentication has raised, and the
\* SecurityLevel object is authPriv.
C9_Witness ==
    /\ slOp.op = "privFlag"
    /\ slOp.raised
    /\ flags.securityLevel = noAuthNoPriv
    /\ level = authPriv

\* C10: the comparisons of two levels are those of their ranks in
\* noAuthNoPriv < authNoPriv < authPriv: exactly one of a < b, a == b, b < a,
\* no level below itself, a < b < c gives a < c, and a >= b iff not a < b.
C10_StrictTotalOrder ==
    /\ cmp.lt <=> Rank(cmp.a) < Rank(cmp.b)
    /\ cmp.gt <=> Rank(cmp.b) < Rank(cmp.a)
    /\ cmp.eq <=> Rank(cmp.a) = Rank(cmp.b)
    /\ Cardinality({x \in {"lt", "eq", "gt"} : cmp[x]}) = 1
    /\ cmp.ge <=> ~cmp.lt
    /\ ~SLLess(cmp.a, cmp.a)
    /\ \A c \in Levels : (cmp.lt /\ SLLess(cmp.b, c)) => SLLess(cmp.a, c)

\* authNoPriv has been compared with authPriv and found lower.
C10_Witness ==
    /\ cmp.a = authNoPriv
    /\ cmp.b = authPriv
    /\ cmp.lt
    /\ ~cmp.ge

---------------------------------------------------------------------------
(* Properties of decoding *)

\* The byte has PRIV set and AUTH clear.
PrivWithoutAuth(byte) == (byte \div 2) % 2 = 1 /\ byte % 2 = 0

\* C11, as claimed: decoding any byte b as MessageFlags and encoding the
\* result gives b & 0x07.
C11_RoundTripAllBytes ==
    slOp.op = "interpret" => (~slOp.raised /\ MFData(flags) = slOp.a % 8)

\* C11, amended: a byte with PRIV set and AUTH clear is not decoded at all
\* (ValueError); every other byte b decodes, and encoding the result gives
\* b & 0x07.
C11_RoundTrip ==
    slOp.op = "interpret" =>
        IF PrivWithoutAuth(slOp.a)
        THEN slOp.raised
        ELSE ~slOp.raised /\ MFData(flags) = slOp.a % 8

\* Byte 13 (a bit above the three flags set) has been decoded; it encodes as 5.
C11_Witness ==
    /\ slOp.op = "interpret"
    /\ slOp.a = 13
    /\ ~slOp.raised
    /\ MFData(flags) = 5

\* C12, as claimed: with the security module registered, prepareDataElements
\* on a message whose msgFlags have PRIV set and AUTH clear fails with
\* InvalidMessage.
C12_InvalidMessage ==
    (rcv.pc = "idle" /\ USM \in DOMAIN securityModules) =>
        \A msg \in Messages :
            (msg.version = SNMPv3 /\ PrivWithoutAuth(msg.flags)) =>
                PDEResult(msg).kind = "InvalidMessage"

\* C13, as claimed: prepareDataElements and SNMPv3Message.decode fail with
\* BadVersion for every message whose version is not 3.
C13_BadVersion ==
    rcv.pc = "idle" =>
        \A msg \in Messages :
            msg.version # SNMPv3 =>
                /\ PDEResult(msg).kind = "BadVersion"
                /\ SNMPv3MessageDeserialize(msg).err = "BadVersion"

\* What C14 says HeaderData.decode does with header fields m, given its
\* outcome o: the bounds in order, then the security model, then the fields.
HeaderOutcome(m, o) ==
    IF m.msgID < 0
    THEN o.err = "ParseError" /\ o.field = "msgID"
    ELSE IF m.maxSize < MinMaxSize
    THEN o.err = "ParseError" /\ o.field = "msgMaxSize"
    ELSE IF m.securityModel < 1
    THEN o.err = "ParseError" /\ o.field = "msgSecurityModel"
    ELSE IF m.securityModel # USM
    THEN o.err = "UnknownSecurityModel"
    ELSE /\ o.err = "none"
         /\ o.id = m.msgID
         /\ o.maxSize = m.maxSize
         /\ o.securityModel = m.securityModel
         /\ o.flags.securityLevel.auth <=> (m.flags % 2 = 1)
         /\ o.flags.securityLevel.priv <=> ((m.flags \div 2) % 2 = 1)
         /\ o.flags.reportableFlag <=> ((m.flags \div 4) % 2 = 1)

\* C14, as claimed: HeaderData.decode fails with ParseError on the first of
\* msgID < 0, msgMaxSize < 484, msgSecurityModel < 1, with
\* UnknownSecurityModel on an undefined security model, and otherwise returns
\* the decoded fields.
C14_HeaderBounds ==
    dec.op = "HeaderData" => HeaderOutcome(dec.msg, dec.out)

\* C14, amended: that holds for a header whose msgFlags decode; msgFlags with
\* PRIV set and AUTH clear make HeaderData.decode fail with the ValueError of
\* MessageFlags.decode, whatever the other fields are.
C14_HeaderBoundsAfterFlags ==
    dec.op = "HeaderData" =>
        IF PrivWithoutAuth(dec.msg.flags)
        THEN dec.out.err = "ValueError"
        ELSE HeaderOutcome(dec.msg, dec.out)

\* A header that breaks all three bounds has been decoded: the error names
\* msgID.
C14_Witness ==
    /\ dec.op = "HeaderData"
    /\ dec.msg.msgID < 0
    /\ dec.msg.maxSize < MinMaxSize
    /\ dec.msg.securityModel < 1
    /\ dec.msg.flags = AUTH_FLAG + PRIV_FLAG + REPORTABLE_FLAG
    /\ dec.out.err = "ParseError"
    /\ dec.out.field = "msgID"

---------------------------------------------------------------------------
(* Properties of prepareDataElements: the errors before response matching *)

\* The header of msg decodes and names the security model USM.
HeaderOfUSM(msg) ==
    /\ msg.version = SNMPv3
    /\ ~PrivWithoutAuth(msg.flags)
    /\ msg.msgID >= 0
    /\ msg.maxSize >= MinMaxSize
    /\ msg.securityModel = USM

\* C15: while no module is registered for USM, prepareDataElements fails with
\* UnknownSecurityModel on every message whose header names USM, also on one
\* the module would reject and on a Response or Report, whatever its msgID:
\* neither the module nor the table decides the outcome.
C15_UnknownSecurityModel ==
    (rcv.pc = "idle" /\ USM \notin DOMAIN securityModules) =>
        \A msg \in Messages :
            HeaderOfUSM(msg) => PDEResult(msg) = Raised("UnknownSecurityModel", "none")

\* The receiver has raised UnknownSecurityModel with no module registered,
\* where a message the module would reject was among the datagrams.
C15_Witness ==
    /\ rcv.pc = "raised"
    /\ rcv.kind = "UnknownSecurityModel"
    /\ securityModules = EmptyTable
    /\ \E msg \in RejectedMsgs : HeaderOfUSM(msg)
    /\ \E msg \in ResponseMsgs : HeaderOfUSM(msg)

\* C16: with the module registered, prepareDataElements on a message that it
\* accepts and whose PDU is a request or notification fails with
\* UnsupportedFeature and returns no handle, whether or not the msgID is
\* outstanding.
C16_UnsupportedFeature ==
    /\ (rcv.pc = "idle" /\ USM \in DOMAIN securityModules) =>
          \A msg \in OtherPduMsgs :
              (HeaderOfUSM(msg) /\ msg.secOK /\ msg.pdu = "Get") =>
                  PDEResult(msg) = Raised("UnsupportedFeature", "none")
    /\ (rcv.pc = "raised" /\ rcv.kind = "UnsupportedFeature") => rcv.handle = None

\* The receiver has raised UnsupportedFeature while some msgID of the
\* request PDUs it may get is outstanding with a live handle, and another is
\* not outstanding.
C16_Witness ==
    /\ rcv.pc = "raised"
    /\ rcv.kind = "UnsupportedFeature"
    /\ \E msg \in OtherPduMsgs :
          /\ msg.pdu = "Get"
          /\ msg.msgID \in DOMAIN outstanding
          /\ handleLive[outstanding[msg.msgID].handle]
    /\ \E msg \in OtherPduMsgs : msg.pdu = "Get" /\ msg.msgID \notin DOMAIN outstanding

---------------------------------------------------------------------------
(* Properties of prepareOutgoingMessage *)

\* C17: what prepareOutgoingMessage hands to the security module is a
\* message with the msgID under which the request's entry is in the table,
\* maxSize 1472, the requested security level, REPORTABLE iff the PDU is
\* Confirmed, a registered security model (the given or the default one), and a
\* ScopedPDU with the engineID as context engine and the given context name;
\* the entry stores the same engineID, contextName, securityName,
\* securityModel and securityLevel.
C17_OutgoingMessage ==
    \A s \in Senders :
        sender[s].pc = "prepareOutgoing" =>
            LET args == sender[s].args
                message == sender[s].message.message
                entry == outstanding[message.header.id]
            IN  /\ message.header.id = sender[s].msgID
                /\ message.header.id \in DOMAIN outstanding
                /\ entry.handle = args.handle
                /\ message.header.maxSize = 1472
                /\ message.header.flags.securityLevel = args.securityLevel
                /\ message.header.flags.reportableFlag <=> message.scopedPDU.pdu = "Get"
                /\ message.header.securityModel \in {defaultSecurityModel} \cup SecurityModels
                /\ message.header.securityModel \in DOMAIN securityModules
                /\ message.scopedPDU.contextEngineID = args.engineID
                /\ message.scopedPDU.contextName = args.contextName
                /\ sender[s].message.engineID = args.engineID
                /\ sender[s].message.securityName = args.securityName
                /\ entry.engineID = args.engineID
                /\ entry.context = args.contextName
                /\ entry.securityName = args.securityName
                /\ entry.securityModel = message.header.securityModel
                /\ entry.securityLevel = args.securityLevel

\* Sender 1 hands over an authPriv trap while sender 2 hands over a
\* noAuthNoPriv request.
C17_Witness ==
    /\ sender[1].pc = "prepareOutgoing"
    /\ sender[1].args.securityLevel = authPriv
    /\ sender[1].message.message.scopedPDU.pdu = "Trap"
    /\ sender[2].pc = "prepareOutgoing"
    /\ sender[2].args.securityLevel = noAuthNoPriv
    /\ sender[2].message.message.scopedPDU.pdu = "Get"

---------------------------------------------------------------------------
(* Properties of the locks *)

\* The locks thread t holds
Held(t) == {l \in Locks : lock[l] = t}

\* C18: a thread that is calling a security module (or the handle) holds no
\* lock of the processor; no thread holds both locks; a thread about to read
\* or write the outstanding table holds cacheLock, and one about to read or
\* write the security modules or the default model holds securityLock; and a
\* thread that waits for a lock waits for another thread that is not itself
\* waiting, so the threads cannot deadlock.
C18_LockDiscipline ==
    \A t \in Threads :
        LET line == Code[thread[t]]
        IN  /\ line.do = "call" => Held(t) = {}
            /\ Cardinality(Held(t)) <= 1
            /\ (line.do = "access" /\ line.on = "outstanding") => lock["cacheLock"] = t
            /\ (line.do = "access" /\ line.on = "securityModules") =>
                   lock["securityLock"] = t
            /\ line.do \in {"idle", "acquire"} => Held(t) = {}
            /\ (line.do = "acquire" /\ lock[line.on] # None) =>
                   Code[thread[lock[line.on]]].do \in {"access", "release"}

\* One thread is inside processIncoming, another holds cacheLock inside
\* cache(), and the third waits for cacheLock in retrieve().
C18_Witness ==
    /\ thread[1] = "pde.504"
    /\ thread[2] = "cache.444"
    /\ lock["cacheLock"] = 2
    /\ thread[3] = "retrieve.456"
    /\ lock["securityLock"] = None

---------------------------------------------------------------------------
(* Properties of the privacy protocols *)

\* Thread t assigns self.salt in this step.
StoreStep(t) == enc[t].pc = "store" /\ enc'[t].pc = "salt"

\* C19, as claimed: when two threads have each called encrypt once on the
\* same object, the two calls have returned different salts, and no
\* increment is lost: every assignment to the counter leaves it 1 higher
\* (modulo SALTWRAP) than it was, so that it ends 2 higher than it started.
C19_SerializedIncrement ==
    /\ []((enc[1].pc = "done" /\ enc[2].pc = "done" /\ enc[1].boots = enc[2].boots)
            => enc[1].out # enc[2].out)
    /\ [][\A t \in EncThreads :
            StoreStep(t) =>
                privProtocol'.salt = (privProtocol.salt + 1) % SALTWRAP(privProtocol.proto)]_vars

\* A step that is a call of encrypt from beginning to end
EncryptStep == enc'[1].pc = "done" /\ <<privProtocol, enc>>' # <<privProtocol, enc>>

\* The bytes are the big-endian digits of n, length of them
IsBigEndian(bytes, n, length) ==
    /\ Len(bytes) = length
    /\ \A k \in 1..length : bytes[k] \in 0..(ByteRange - 1)
    /\ FromBytes(bytes) = n

\* C20: an encrypt call leaves the counter 1 higher modulo SALTWRAP (0 after
\* the largest value) and returns the new value as the salt: its SALTLEN
\* big-endian bytes for AES, and for DES the 4 bytes of engineBoots followed
\* by its 4 bytes.  decrypt leaves the counter as it is.
C20_EncryptStep ==
    /\ EncryptStep =>
          LET wrap == SALTWRAP(privProtocol.proto)
              salt == enc'[1].out
          IN  /\ privProtocol'.salt = IF privProtocol.salt = wrap - 1 THEN 0 ELSE privProtocol.salt + 1
              /\ privProtocol'.salt \in 0..(wrap - 1)
              /\ privProtocol.proto = "aes" => IsBigEndian(salt, privProtocol'.salt, 8)
              /\ privProtocol.proto = "des" =>
                    /\ Len(salt) = 8
                    /\ IsBigEndian(SubSeq(salt, 1, 4), enc'[1].boots, 4)
                    /\ IsBigEndian(SubSeq(salt, 5, 8), privProtocol'.salt, 4)
    /\ enc'[1].pc = "decrypted" => privProtocol' = privProtocol

\* C20: the counter moves by 1 modulo SALTWRAP per encrypt and not at all
\* per decrypt, and the salts of fewer than SALTWRAP encrypt calls in a row
\* with one engineBoots are pairwise distinct.
C20_SaltCounter ==
    /\ [](run.n < SALTWRAP(privProtocol.proto) => Cardinality(run.salts) = run.n)
    /\ [][C20_EncryptStep]_vars

\* A DES object's counter has wrapped from its largest value to 0 in the last
\* encrypt call of a row of MaxRun calls, whose salts are all different.
C20_Witness ==
    /\ privProtocol.proto = "des"
    /\ privProtocol.salt = 0
    /\ enc[1].pc = "done"
    /\ FromBytes(SubSeq(enc[1].out, 5, 8)) = 0
    /\ run.n = MaxRun
    /\ Cardinality(run.salts) = run.n

---------------------------------------------------------------------------
(* Properties of DesCbc *)

\* The bytes of s from position n + 1 on are all zero
ZeroFrom(s, n) == \A k \in (n + 1)..Len(s) : s[k] = 0

\* What the last encrypt call fed to the cipher, recovered from the ciphertext
Encrypted == CbcDecrypt(ComputeIV(io.salt), io.result)

\* C21: the ciphertext encrypt returns has a length that is a multiple of 8
\* and at least the length of the plaintext, and it encrypts the plaintext
\* followed by zero bytes only; decrypt of a ciphertext whose length is not a
\* multiple of 8 raises DecryptionError.
C21_Lengths ==
    /\ io.op = "encrypt" =>
          /\ io.err = "none"
          /\ Len(io.result) % 8 = 0
          /\ Len(io.result) >= Len(io.data)
          /\ SubSeq(Encrypted, 1, Len(io.data)) = io.data
          /\ ZeroFrom(Encrypted, Len(io.data))
    /\ (io.op = "decrypt" /\ Len(io.data) % 8 # 0) =>
          /\ io.err = "DecryptionError"
          /\ io.result = <<>>

\* C21: the lengths above, and a decrypt call that raises DecryptionError
\* leaves the salt counter as it was.
C21_DesLengths ==
    /\ []C21_Lengths
    /\ [][(io' # io /\ io'.err = "DecryptionError") => privProtocol' = privProtocol]_vars

\* A ciphertext of 9 bytes has been refused by an object whose counter is 0.
C21_Witness ==
    /\ io.op = "decrypt"
    /\ Len(io.data) = 9
    /\ io.err = "DecryptionError"
    /\ privProtocol.proto = "des"
    /\ privProtocol.salt = 0

\* C28: encrypt of n bytes returns 8 * (n \div 8 + 1) bytes, the plaintext
\* followed by 1 to 8 zero bytes being what is encrypted, so that a plaintext
\* whose length is a multiple of 8 gains a whole block; decrypt of m bytes,
\* m a multiple of 8, returns m + 8 bytes.
C28_PadLengths ==
    /\ io.op = "encrypt" =>
          /\ Len(io.result) = 8 * ((Len(io.data) \div 8) + 1)
          /\ Len(io.result) - Len(io.data) \in 1..8
          /\ SubSeq(Encrypted, 1, Len(io.data)) = io.data
          /\ ZeroFrom(Encrypted, Len(io.data))
    /\ (io.op = "decrypt" /\ Len(io.data) % 8 = 0) =>
          /\ io.err = "none"
          /\ Len(io.result) = Len(io.data) + 8

\* A plaintext of 16 bytes has been encrypted to 24 bytes.
C28_Witness ==
    /\ io.op = "encrypt"
    /\ Len(io.data) = 16
    /\ Len(io.result) = 24

\* A ciphertext of 16 bytes has been decrypted to 24 bytes.
C28_WitnessDecrypt ==
    /\ io.op = "decrypt"
    /\ Len(io.data) = 16
    /\ Len(io.result) = 24

---------------------------------------------------------------------------
(* Properties of the auth protocols *)

\* The T of the six protocols, as claimed
ClaimedT ==
    [HmacMd5 |-> 12, HmacSha |-> 12, HmacSha224 |-> 16,
     HmacSha256 |-> 24, HmacSha384 |-> 32, HmacSha512 |-> 48]

\* A signature of T bytes, or none yet
SignatureOf(signature, T) ==
    signature # NoSignature =>
        /\ Len(signature.digest) = T
        /\ \A k \in 1..T : signature.digest[k] \in 0..(ByteRange - 1)

---------------------------------------------------------------------------
(* Properties of prepareDataElements: the order of the cross-check *)

\* The Responses and Reports that carry s's msgID: any of the three levels
\* and any values of the four matched fields.
Answers(s) ==
    {[ScopedMsg(sender[s].msgID, f, fs, p)
         EXCEPT !.securityModel = sender[s].entry.securityModel] :
        f \in {0, AUTH_FLAG, AUTH_FLAG + PRIV_FLAG}, fs \in AnyFields, p \in ResponseClass}

\* The five checks in their order: the field named, whether a Report skips
\* the check, and whether msg fails it against the request's entry.  The
\* level check fails as line 519 tests it: the request's level is lower than
\* the level of msg.
Checks(entry, msg) ==
    <<[field |-> "Security Level", skipped |-> TRUE,
       fails |-> Rank(entry.securityLevel) < Rank(MFInterpret(msg.flags).obj.securityLevel)],
      [field |-> "Security Engine ID", skipped |-> TRUE,
       fails |-> entry.engineID # msg.securityEngineID],
      [field |-> "Security Name", skipped |-> FALSE,
       fails |-> entry.securityName # msg.securityName],
      [field |-> "Context Engine ID", skipped |-> TRUE,
       fails |-> entry.engineID # msg.contextEngineID],
      [field |-> "Context Name", skipped |-> FALSE,
       fails |-> entry.context # msg.contextName]>>

\* The positions of the checks that are made on msg and fail
Failing(entry, msg) ==
    LET checks == Checks(entry, msg)
    IN  {k \in 1..5 : checks[k].fails /\ ~(msg.pdu = "Report" /\ checks[k].skipped)}

\* The field the cross-check of msg against entry is to name: that of the
\* first check that fails, "none" when no check fails
FirstFailing(entry, msg) ==
    LET failing == Failing(entry, msg)
    IN  IF failing = {}
        THEN "none"
        ELSE Checks(entry, msg)[CHOOSE k \in failing : \A j \in failing : k <= j].field

\* For a Response or Report that carries the msgID of a request that has
\* been sent and whose handle is live, prepareDataElements raises the ResponseMismatch of the
\* first check that fails, in the order security level, security engine ID,
\* security name, context engine ID, context name, a Report skipping the
\* first, second and fourth; it returns the handle when none fails, so a
\* Report is accepted whenever its securityName and contextName are the
\* request's.
C23_CrossCheck ==
    rcv.pc = "idle" =>
        \A s \in Senders :
            sender[s].pc = "waiting" =>
                \A msg \in Answers(s) :
                    LET result == PDEResult(msg)
                        field == FirstFailing(sender[s].entry, msg)
                    IN  /\ result = IF field = "none"
                                    THEN Returned(sender[s].msgID, s)
                                    ELSE Raised("ResponseMismatch", field)
                        /\ (/\ msg.pdu = "Report"
                            /\ msg.securityName = sender[s].entry.securityName
                            /\ msg.contextName = sender[s].entry.context)
                              => result.pc = "returned"

\* C23: the cross-check reports the first failing check, in every state the
\* receiver can run prepareDataElements in.
C23_FirstMismatch == []C23_CrossCheck

\* The receiver has raised ResponseMismatch while a request at authNoPriv is
\* waiting, and among the datagrams it may get are a Response that fails
\* four checks and a Report that would fail the three it skips.
C23_Witness ==
    /\ rcv.pc = "raised"
    /\ rcv.kind = "ResponseMismatch"
    /\ \E s \in Senders :
          /\ sender[s].pc = "waiting"
          /\ sender[s].entry.securityLevel = authNoPriv
          /\ \E msg \in Answers(s) \cap Messages :
                /\ msg.pdu = "Response"
                /\ Cardinality(Failing(sender[s].entry, msg)) >= 4
          /\ \E msg \in Answers(s) \cap Messages :
                /\ msg.pdu = "Report"
                /\ Failing(sender[s].entry, msg) = {}
                /\ Checks(sender[s].entry, msg)[2].fails
                /\ Checks(sender[s].entry, msg)[4].fails

---------------------------------------------------------------------------
(* Properties of prepareDataElements: what a failure leaves behind *)

\* The step in which prepareDataElements raises an exception
Fails == rcv.pc = "idle" /\ rcv'.pc = "raised"

\* After a failure, the Response to every request whose handle is live is
\* accepted by the next call.
StillAccepted ==
    rcv.pc = "raised" =>
        \A s \in Senders :
            Live(s) => PDEResult(ResponseTo(s)) = Returned(sender[s].msgID, s)

\* C24: a call of prepareDataElements that fails, whatever the error, leaves
\* the outstanding table and the security modules as they were, and after it
\* the Response to every request whose handle is live is still accepted.
C24_FailureKeepsRequests ==
    /\ []StillAccepted
    /\ [][Fails =>
            /\ outstanding' = outstanding
            /\ securityModules' = securityModules
            /\ defaultSecurityModel' = defaultSecurityModel]_vars

\* prepareDataElements has failed with ResponseMismatch while two requests
\* are waiting, and the Response to each is among the datagrams that may
\* come next and would be accepted.
C24_Witness ==
    /\ rcv.pc = "raised"
    /\ rcv.kind = "ResponseMismatch"
    /\ \A s \in Senders :
          /\ sender[s].pc = "waiting"
          /\ ResponseTo(s) \in Messages
          /\ PDEResult(ResponseTo(s)) = Returned(sender[s].msgID, s)

---------------------------------------------------------------------------
(* Properties of uncache as the handle's callback *)

\* The handle of s runs its callback uncache(msgID) in this step
RunsCallback(s, msgID) == msgID \in callbacks[s] /\ msgID \notin callbacks'[s]

\* Every registered callback uncache(M) is for a msgID that is absent from
\* the table or mapped to the entry of the request it was registered for;
\* uncache of an absent msgID leaves the table as it is.
CallbackOwnsEntry ==
    /\ \A s \in Senders : \A msgID \in callbacks[s] :
          \/ msgID \notin DOMAIN outstanding
          \/ /\ outstanding[msgID] = sender[s].entry
             /\ outstanding[msgID].handle = s
    /\ \A msgID \in MsgIDs \ DOMAIN outstanding :
          Uncache(outstanding, msgID) = outstanding

\* C25: the callback uncache(M) of a request runs only while M is absent or
\* mapped to that request's entry, and it removes that entry at most: every
\* other entry, and so the entry of every other request, stays as it is.
C25_UncacheOwnEntry ==
    /\ []CallbackOwnsEntry
    /\ [][\A s \in Senders : \A msgID \in MsgIDs :
            RunsCallback(s, msgID) =>
                /\ DOMAIN outstanding' = DOMAIN outstanding \ {msgID}
                /\ \A k \in DOMAIN outstanding' : outstanding'[k] = outstanding[k]
                /\ \A t \in Senders \ {s} :
                      Outstanding(t) =>
                          /\ sender[t].msgID \in DOMAIN outstanding'
                          /\ outstanding'[sender[t].msgID] = sender[t].entry]_vars

\* The callback of request 1 has run, and request 2, allocated the same
\* msgID after that, is waiting with its entry in the table.
C25_Witness ==
    /\ sender[1].pc = "done"
    /\ sender[2].pc = "waiting"
    /\ sender[2].msgID = sender[1].msgID
    /\ sender[2].msgID \in DOMAIN outstanding
    /\ outstanding[sender[2].msgID] = sender[2].entry

---------------------------------------------------------------------------
(* Properties of prepareOutgoingMessage: the unknown security model *)

\* C26: a call of prepareOutgoingMessage with a securityModel that has no
\* registered module raises ValueError, and the call leaves the outstanding
\* table, the msgID generator and the callbacks of the handle as they were:
\* no msgID has been drawn.
C26_NoModuleNoMsgID ==
    [][\A s \in Senders, securityLevel \in Levels, securityModel \in SecurityModels :
          (/\ securityModel \notin DOMAIN securityModules
           /\ PrepareOutgoingBegin(s, securityLevel, securityModel))
              => /\ sender'[s].pc = "raised"
                 /\ sender'[s].err = "ValueError"
                 /\ sender'[s].msgID = 0
                 /\ outstanding' = outstanding
                 /\ generator' = generator
                 /\ callbacks' = callbacks]_vars

\* A call with the security model USM has failed with ValueError while no
\* module is registered.
C26_Witness ==
    /\ sender[1].pc = "raised"
    /\ sender[1].err = "ValueError"
    /\ USM \notin DOMAIN securityModules
    /\ callbacks[1] = {}

---------------------------------------------------------------------------
(* Properties of addSecurityModuleIfNeeded *)

\* C27: addSecurityModuleIfNeeded for a MODEL that is registered leaves the
\* module table and the default security model as they are, whatever the
\* value of default; for a new MODEL it adds the module and makes the MODEL
\* the default when default is true or there is no default, and leaves the
\* default otherwise.
C27_AddStep ==
    \A module \in ModuleInputs, model \in ModelInputs, default \in BOOLEAN :
        AddSecurityModuleIfNeeded(module, model, default) =>
            IF model \in DOMAIN securityModules
            THEN /\ securityModules' = securityModules
                 /\ defaultSecurityModel' = defaultSecurityModel
            ELSE /\ DOMAIN securityModules' = DOMAIN securityModules \cup {model}
                 /\ securityModules'[model] = module
                 /\ \A k \in DOMAIN securityModules : securityModules'[k] = securityModules[k]
                 /\ defaultSecurityModel' =
                        IF default \/ defaultSecurityModel = None
                        THEN model
                        ELSE defaultSecurityModel

\* C27: the steps of addSecurityModuleIfNeeded are as above, and so once a
\* module is registered the default security model is a key of the module
\* table (and before that there is none).
C27_NeverReplaces ==
    /\ [](IF securityModules = EmptyTable
          THEN defaultSecurityModel = None
          ELSE defaultSecurityModel \in DOMAIN securityModules)
    /\ [][C27_AddStep]_vars

\* Modules of both MODELs are registered, the second one registered without
\* default: the first MODEL is still the default.
C27_Witness ==
    /\ DOMAIN securityModules = ModelInputs
    /\ defaultSecurityModel = USM
    /\ securityModules[USM] = "usm2"
    /\ securityModules[USM + 1] = "other"

===========================================================================
